---- MODULE Spec2Model ----
(***************************************************************************)
(* Ingestion of the MIMBCD-UI data pipeline: src/src/processing/           *)
(* processor.py (process_directory), extractor.py (extract_dicom_info),    *)
(* encryption.py (encrypt_patient_id) and anonymizer.py                    *)
(* (anonymize_dicom_file).  Text values are strings; the conversions the   *)
(* code applies to them (strip, replace, upper, zfill, the :08 format,     *)
(* slicing, startswith, dirname) are computed character by character.      *)
(***************************************************************************)
EXTENDS Integers, Sequences, FiniteSets, TLC

VARIABLES
  files,              \* the source tree in os.walk order: a sequence of files
  secret,             \* the secret phrase file of this run
  batch_size,         \* processor.py:40, the batch size of this run
  pc,                 \* position of process_directory
  walk_pos,           \* index of the next file the walk visits
  file_batch,         \* processor.py:56, indexes into files
  batch_pos,          \* index in file_batch of the next file of process_batch
  anonymized_ids,     \* processor.py:51, real id -> <<anon id, date>>
  instance_counter,   \* processor.py:54
  first_row_written,  \* processor.py:55
  ledger,             \* rows of the mapping file, in append order
  out_dir,            \* the files of output_folder
  calls,              \* history: the calls of anonymize_dicom_file
  encrypt_calls,      \* history: real ids handed to encrypt_patient_id
  sightings,          \* history: <<patient_id, date>> of processor.py:76-77
  meta_files,         \* the files of pre_folder and post_folder
  fn_args,            \* arguments of the function applied by a function specification
  fn_result,          \* its result
  stages,             \* the curation tree: stage directory -> its candidate files
  moves,              \* history: what the curation steps did to the candidates
  pool,               \* identifier.py: the run of process_checking_files_in_batches
  legacy_anon_patient_id  \* src/src/processor.py: the local anon_patient_id

vars == <<files, secret, batch_size, pc, walk_pos, file_batch, batch_pos, anonymized_ids,
          instance_counter, first_row_written, ledger, out_dir, calls,
          encrypt_calls, sightings, meta_files, fn_args, fn_result, stages, moves, pool,
          legacy_anon_patient_id>>

run_vars == <<files, secret, batch_size, pc, walk_pos, file_batch, batch_pos, anonymized_ids,
              instance_counter, first_row_written, ledger, out_dir, calls,
              encrypt_calls, sightings, meta_files>>

cur_vars == <<stages, moves, pool, legacy_anon_patient_id>>

\* identifier.py is not running.
PoolIdle == [state |-> "idle"]

\* The local anon_patient_id of src/src/processor.py before its first
\* assignment.
Unbound == [unbound |-> TRUE]

\* No curation step is running, nor src/src/processor.py.
CurationIdle ==
  stages = <<>> /\ moves = <<>> /\ pool = PoolIdle /\ legacy_anon_patient_id = Unbound

-----------------------------------------------------------------------------
(* Bounds of the model. *)

MaxFiles == 2
MaxBatchSize == 2
MaxLongId == 65

-----------------------------------------------------------------------------
(* Strings. *)

Min(a, b) == IF a < b THEN a ELSE b

CharAt(s, k) == SubSeq(s, k, k)

\* s[:n] and s[n:] of Python for 0 <= n.
Take(s, n) == SubSeq(s, 1, Min(n, Len(s)))
Drop(s, n) == SubSeq(s, n + 1, Len(s))

Whitespace == {" ", "\t", "\n"}

RECURSIVE lstrip(_)
lstrip(s) ==
  LET rest == Drop(s, 1)
  IN  IF s # "" /\ CharAt(s, 1) \in Whitespace THEN lstrip(rest) ELSE s

RECURSIVE rstrip(_)
rstrip(s) ==
  LET rest == Take(s, Len(s) - 1)
  IN  IF s # "" /\ CharAt(s, Len(s)) \in Whitespace THEN rstrip(rest) ELSE s

\* str.strip()
strip(s) == LET left == lstrip(s) IN rstrip(left)

\* str.replace(old, new) for a one-character old
RECURSIVE replace(_, _, _)
replace(s, old, new) ==
  LET rest == Drop(s, 1)
  IN  IF s = "" THEN ""
      ELSE (IF CharAt(s, 1) = old THEN new ELSE CharAt(s, 1)) \o replace(rest, old, new)

Lowercase == "abcdefghijklmnopqrstuvwxyz"
Uppercase == "ABCDEFGHIJKLMNOPQRSTUVWXYZ"

\* The upper-case letter of every lower-case letter.
ToUpper ==
  [c \in {CharAt(Lowercase, k) : k \in 1..Len(Lowercase)} |->
     CharAt(Uppercase, CHOOSE k \in 1..Len(Lowercase) : CharAt(Lowercase, k) = c)]

UpperChar(c) == IF c \in DOMAIN ToUpper THEN ToUpper[c] ELSE c

\* str.upper()
RECURSIVE upper(_)
upper(s) ==
  LET rest == Drop(s, 1)
  IN  IF s = "" THEN "" ELSE UpperChar(CharAt(s, 1)) \o upper(rest)

\* str.startswith(p)
startswith(s, p) == Len(s) >= Len(p) /\ Take(s, Len(p)) = p

Digits == "0123456789"

\* str(n) for a natural number n
RECURSIVE str(_)
str(n) ==
  IF n < 10 THEN CharAt(Digits, n + 1)
  ELSE str(n \div 10) \o CharAt(Digits, (n % 10) + 1)

\* str.zfill(width) for a string without sign
RECURSIVE zfill(_, _)
zfill(s, width) ==
  LET padded == "0" \o s
  IN  IF Len(s) >= width THEN s ELSE zfill(padded, width)

\* f"{n:08}"
format_08(n) == LET digits == str(n) IN zfill(digits, 8)

\* os.path.join(folder, name) for a relative name
path_join(folder, name) == folder \o "/" \o name

\* Position of the last "/" of path, 0 when it has none.
LastSlash(path) ==
  LET slashes == {k \in 1..Len(path) : CharAt(path, k) = "/"}
  IN  IF slashes = {} THEN 0 ELSE CHOOSE k \in slashes : \A m \in slashes : m <= k

\* os.path.dirname(path) for a path that is not in the root directory
dirname(path) == Take(path, LastSlash(path) - 1)

\* os.path.basename(path)
basename(path) == Drop(path, LastSlash(path))

-----------------------------------------------------------------------------
(* encryption.py *)

\* The value a Python function returns, or the exception it raises.
Return(v) == [raised |-> FALSE, value |-> v]
Raise(e) == [raised |-> TRUE, value |-> e]

\* The secret phrase file: absent, present but unreadable, or readable.
SecretFile(state, content) == [state |-> state, content |-> content]

read_secret_phrase(file) ==
  IF file.state = "missing" THEN Raise("FileNotFoundError")
  ELSE IF file.state = "unreadable" THEN Raise("Exception")
  ELSE Return(strip(file.content))

\* Length of hashlib's hexdigest of SHA-256.
SHA256_HEX_LEN == 64

HexDigits == "0123456789abcdef"

Alphabet == Digits \o Uppercase \o Lowercase \o "_- "

CodeOf ==
  [c \in {CharAt(Alphabet, k) : k \in 1..Len(Alphabet)} |->
     CHOOSE k \in 1..Len(Alphabet) : CharAt(Alphabet, k) = c]

CharCode(c) == IF c \in DOMAIN CodeOf THEN CodeOf[c] ELSE 0

\* A number that depends on every character of s[lo..hi] and on its position.
RECURSIVE StrCode(_, _, _)
StrCode(s, lo, hi) ==
  IF lo > hi THEN 7
  ELSE IF lo = hi THEN (lo * 131 + CharCode(CharAt(s, lo)) * 31) % 65521
  ELSE LET mid == (lo + hi) \div 2
       IN  (StrCode(s, lo, mid) * 17 + StrCode(s, mid + 1, hi)) % 65521

HexRing == HexDigits \o HexDigits

\* The hexadecimal digits from..SHA256_HEX_LEN of the digest of a string of
\* code h, sixteen at a time.
RECURSIVE HexBlocks(_, _)
HexBlocks(h, from) ==
  IF from > SHA256_HEX_LEN THEN ""
  ELSE LET start == (h * 3 + (from \div 16) * 5) % 16
           block == SubSeq(HexRing, start + 1, start + 16)
       IN  Take(block, SHA256_HEX_LEN - from + 1) \o HexBlocks(h, from + 16)

\* hashlib.sha256(s.encode()).hexdigest(): a function of s that yields
\* SHA256_HEX_LEN hexadecimal digits.  The digest itself is the library's;
\* the model keeps that it is a function of the whole input and its length.
sha256_hexdigest(s) == HexBlocks(StrCode(s, 1, Len(s)), 1)

encrypt_patient_id(patient_id, secret_file) ==
  LET secret_phrase == read_secret_phrase(secret_file)
      combined_str == secret_phrase.value \o patient_id
      encrypted_id == sha256_hexdigest(combined_str)
      truncated_id == Take(encrypted_id, Len(patient_id))
  IN  IF secret_phrase.raised THEN secret_phrase ELSE Return(truncated_id)

-----------------------------------------------------------------------------
(* extractor.py *)

\* A source file: its name, whether pydicom.dcmread can read it, and its
\* dataset, a function from the attributes it carries to their values.
SourceFile(name, readable, ds) == [name |-> name, readable |-> readable, ds |-> ds]

\* The first characters of the keywords of the DICOM data dictionary.
KeywordInitials == {CharAt(Uppercase, k) : k \in 1..Len(Uppercase)}

\* A name pydicom resolves to an element: a keyword of the data dictionary.
\* An element without keyword, such as a private one, is held under its tag,
\* written like "(0x07a3, 0x1019)", and no attribute name reaches it.
is_keyword(a) == a # "" /\ CharAt(a, 1) \in KeywordInitials

hasattr(ds, a) == is_keyword(a) /\ a \in DOMAIN ds

getattr(ds, a, default) == IF hasattr(ds, a) THEN ds[a] ELSE default

None == [None |-> TRUE]

\* The result of the function a function specification applies.
NotCalled == [called |-> FALSE]
Called(v) == [called |-> TRUE, value |-> v]

\* Mutant: the laterality of an MR file is extracted like any other.
extract_dicom_info_keeps_laterality(file) ==
  IF ~file.readable THEN None
  ELSE IF ~hasattr(file.ds, "Modality") THEN None
  ELSE
    [ PatientID |-> getattr(file.ds, "PatientID", "NOPATIENTID"),
      Modality |-> getattr(file.ds, "Modality", "NOMODALITY"),
      ImageLaterality |-> getattr(file.ds, "ImageLaterality", "NOIMAGELATERALITY"),
      ViewPosition |-> getattr(file.ds, "ViewPosition", "NOVIEWPOSITION"),
      StudyDate |-> getattr(file.ds, "StudyDate", "NOSTUDYDATE"),
      ScanningSequence |-> getattr(file.ds, "ScanningSequence", "NOSCANNINGSEQUENCE"),
      SeriesDescription |-> getattr(file.ds, "SeriesDescription", "NOSERIESDESCRIPTION"),
      InstanceNumber |-> getattr(file.ds, "InstanceNumber", "NOINSTANCENUMBER") ]

extract_dicom_info(file) ==
  IF ~file.readable THEN None
  ELSE IF ~hasattr(file.ds, "Modality") THEN None
  ELSE
    [ PatientID |-> getattr(file.ds, "PatientID", "NOPATIENTID"),
      Modality |-> getattr(file.ds, "Modality", "NOMODALITY"),
      ImageLaterality |->
        IF file.ds["Modality"] # "MR"
        THEN getattr(file.ds, "ImageLaterality", "NOIMAGELATERALITY")
        ELSE "NOIMAGELATERALITY",
      ViewPosition |-> getattr(file.ds, "ViewPosition", "NOVIEWPOSITION"),
      StudyDate |-> getattr(file.ds, "StudyDate", "NOSTUDYDATE"),
      ScanningSequence |-> getattr(file.ds, "ScanningSequence", "NOSCANNINGSEQUENCE"),
      SeriesDescription |-> getattr(file.ds, "SeriesDescription", "NOSERIESDESCRIPTION"),
      InstanceNumber |-> getattr(file.ds, "InstanceNumber", "NOINSTANCENUMBER") ]

-----------------------------------------------------------------------------
(* processor.py and anonymizer.py: names *)

\* Mutant: a US name has the laterality segment also when laterality is empty.
construct_filename_prefix_us_laterality(anon_patient_id, modality, view, laterality, series) ==
  IF modality = "MG" \/ modality = "US"
  THEN anon_patient_id \o "_" \o modality \o "_" \o view \o "_" \o laterality
  ELSE IF startswith(modality, "MR")
  THEN anon_patient_id \o "_" \o modality \o "_" \o series
  ELSE anon_patient_id \o "_" \o modality

construct_filename_prefix(anon_patient_id, modality, view, laterality, series) ==
  IF modality = "MG"
  THEN anon_patient_id \o "_" \o modality \o "_" \o view \o "_" \o laterality
  ELSE IF modality = "US"
  THEN IF laterality # ""
       THEN anon_patient_id \o "_" \o modality \o "_" \o view \o "_" \o laterality
       ELSE anon_patient_id \o "_" \o modality \o "_" \o view
  ELSE IF startswith(modality, "MR")
  THEN anon_patient_id \o "_" \o modality \o "_" \o series
  ELSE anon_patient_id \o "_" \o modality

generate_filename_prefix(anon_params) ==
  IF anon_params.modality = "MG"
  THEN anon_params.anon_patient_id \o "_" \o anon_params.modality \o "_"
         \o anon_params.view \o "_" \o anon_params.laterality
  ELSE IF anon_params.modality = "US"
  THEN anon_params.anon_patient_id \o "_" \o anon_params.modality
  ELSE IF anon_params.modality = "MR"
  THEN anon_params.anon_patient_id \o "_" \o anon_params.modality \o "_"
         \o anon_params.series
  ELSE anon_params.anon_patient_id \o "_" \o anon_params.modality \o "_"
         \o anon_params.view \o "_" \o anon_params.date

-----------------------------------------------------------------------------
(* anonymizer.py *)

pre_folder == "meta/pre"
post_folder == "meta/post"

is_dicom_file(file) == file.readable

fields_to_anonymize ==
  << "PatientName", "PatientBirthDate", "PatientSex", "PatientAge",
     "StudyDescription", "SeriesDescription", "InstitutionName", "InstitutionAddress",
     "InstitutionalDepartmentName", "ReferringPhysicianName", "PhysiciansOfRecord",
     "WindowCenterWidthExplanation", "RequestingPhysician", "RequestedProcedureDescription",
     "PerformedProcedureStepDescription", "ScheduledProcedureStepDescription",
     "(0x07a3, 0x1019)", "(0x07a3, 0x101c)", "(0x0040, 0x0007)" >>

anonymize_field(ds, field_name, new_value) ==
  IF hasattr(ds, field_name) THEN [ds EXCEPT ![field_name] = new_value] ELSE ds

\* anonymizer.py:202-203, the loop over fields_to_anonymize: every listed
\* field anonymize_field finds is set to "".
anonymize_fields(ds, fields) ==
  LET found == {fields[k] : k \in {j \in DOMAIN fields : hasattr(ds, fields[j])}}
  IN  [a \in DOMAIN ds |-> IF a \in found THEN "" ELSE ds[a]]

\* The datasets of the model carry no sequence attributes, which leaves the
\* flat PerformingPhysicianName of anonymize_sequences.
anonymize_sequences(ds) == anonymize_field(ds, "PerformingPhysicianName", "")

\* anonymizer.py:193-209, the dataset anonymize_dicom_file hands to save_dicom
anonymized_dataset(ds, anon_params) ==
  LET cleared == anonymize_fields(ds, fields_to_anonymize)
      renamed == anonymize_field(cleared, "PatientID", anon_params.anon_patient_id)
  IN  anonymize_sequences(renamed)

filename_suffix(anon_params, ext) ==
  "_" \o anon_params.date \o "_" \o zfill(anon_params.instance, 4) \o ext

\* Path of the file save_meta_pre writes.
save_meta_pre(anon_params) ==
  path_join(pre_folder, generate_filename_prefix(anon_params)
                          \o filename_suffix(anon_params, ".dcm.txt"))

\* Path of the file save_meta_post writes.
save_meta_post(dicom_file_path) ==
  path_join(post_folder, basename(dicom_file_path) \o ".txt")

\* A file of a folder: its path and its dataset.
Stored(path, ds) == [path |-> path, ds |-> ds]

\* Writing or renaming onto a path replaces the file that was there.
WriteFile(dir, path, ds) == {f \in dir : f.path # path} \cup {Stored(path, ds)}

RemoveFile(dir, path) == {f \in dir : f.path # path}

\* Mutant: the artifact is renamed into the source folder.
new_file_path_in_source(output_path, anon_params) ==
  path_join("src",
            generate_filename_prefix(anon_params) \o filename_suffix(anon_params, ".dcm"))

\* Path the artifact is renamed to by save_dicom.
new_file_path(output_path, anon_params) ==
  path_join(dirname(output_path),
            generate_filename_prefix(anon_params) \o filename_suffix(anon_params, ".dcm"))

\* save_dicom: the output folder and the metadata files after it.  io names
\* the write that fails, if any.
save_dicom(dir, meta, ds, output_path, anon_params, io) ==
  LET written == WriteFile(dir, output_path, ds)
      target == new_file_path(output_path, anon_params)
  IN  IF io = "post_fails"
      THEN [out_dir |-> written, meta_files |-> meta]
      ELSE [out_dir |-> WriteFile(RemoveFile(written, output_path), target, ds),
            meta_files |-> meta \cup {save_meta_post(output_path)}]

anonymize_dicom_file(dir, meta, file, output_path, anon_params, io) ==
  IF io = "pre_fails"
  THEN [out_dir |-> dir, meta_files |-> meta]
  ELSE save_dicom(dir, meta \cup {save_meta_pre(anon_params)},
                  anonymized_dataset(file.ds, anon_params), output_path, anon_params, io)

-----------------------------------------------------------------------------
(* processor.py: process_directory *)

\* processor.py:40, the folders process_directory is given; the output folder
\* is outside the source tree.
source_folder == "src"
output_folder == "out"

\* Path of the i-th file of the walk, os.path.join(root, file) of
\* processor.py:141: every file of the model is in a folder of its own.
source_path(i) == path_join(path_join(source_folder, str(i)), files[i].name)

ignored_files == {"DICOMDIR", "LOCKFILE", "VERSION", ".DS_Store"}

mapping_header == <<"real_patient_id_date", "real_patient_id", "anonymized_patient_id">>

\* Mutant: every sighting is handled as the first of its patient.
is_new_patient_always(ids, patient_id) == TRUE

\* processor.py:80, the lookup in the table of this run
is_new_patient(ids, patient_id) == patient_id \notin DOMAIN ids

\* processor.py:82
cache_entry(anon_patient_id, date) == <<anon_patient_id, date>>

\* processor.py:90
mapping_row(date, patient_id, anon_patient_id) == <<date, patient_id, anon_patient_id>>

\* processor.py:85-90, the rows the append adds to the mapping file
appended_rows(header_written, row) ==
  IF header_written THEN <<row>> ELSE <<mapping_header, row>>

\* Mutant: the counter is not incremented.
next_instance_counter_kept(counter) == counter

\* processor.py:105
next_instance_counter(counter) == counter + 1

\* processor.py:106
instance_of(instance_number, counter) == instance_number \o "_" \o format_08(counter)

\* processor.py:109
breast_laterality_of(laterality) == IF laterality # "" THEN upper(laterality) ELSE ""

\* processor.py:111
output_path_of(filename_prefix, date, instance) ==
  path_join(output_folder, filename_prefix \o "_" \o date \o "_" \o instance \o ".dcm")

\* The state process_batch reads and writes.
BatchState ==
  [ anonymized_ids |-> anonymized_ids, instance_counter |-> instance_counter,
    first_row_written |-> first_row_written, ledger |-> ledger,
    out_dir |-> out_dir, meta_files |-> meta_files, calls |-> calls,
    encrypt_calls |-> encrypt_calls, sightings |-> sightings ]

\* processor.py:96-127, from the extracted record and the anonymized id to
\* the call of anonymize_dicom_file.
name_and_anonymize(st, input_path, dicom_info, anon_patient_id, date, io) ==
  LET file == files[input_path]
      modality == dicom_info.Modality
      laterality == dicom_info.ImageLaterality
      view == dicom_info.ViewPosition
      sequence == dicom_info.ScanningSequence
      series == dicom_info.SeriesDescription
      instance_number == dicom_info.InstanceNumber
      counter == next_instance_counter(st.instance_counter)
      instance == instance_of(instance_number, counter)
      breast_laterality == breast_laterality_of(laterality)
      filename_prefix ==
        construct_filename_prefix(anon_patient_id, modality, view, breast_laterality, series)
      output_path == output_path_of(filename_prefix, date, instance)
      anon_params ==
        [ anon_patient_id |-> anon_patient_id, modality |-> modality, view |-> view,
          laterality |-> laterality, date |-> date, sequence |-> sequence,
          series |-> series, instance |-> instance ]
      after == anonymize_dicom_file(st.out_dir, st.meta_files, file, output_path,
                                    anon_params, io)
  IN  [ st EXCEPT !.instance_counter = counter,
                  !.out_dir = after.out_dir,
                  !.meta_files = after.meta_files,
                  !.calls = Append(@, [ input_path |-> input_path,
                                        output_path |-> output_path,
                                        anon_params |-> anon_params,
                                        outcome |-> io ]) ]

\* processor.py:66-132, one iteration of the loop of process_batch.  io names
\* the write that fails while the file is processed, if any: the append to the
\* mapping file or one of the metadata writes of anonymize_dicom_file.
process_file(st, input_path, io) ==
  LET file == files[input_path]
      dicom_info == extract_dicom_info(file)
      patient_id == dicom_info.PatientID
      date == replace(dicom_info.StudyDate, "-", "")
      seen == [st EXCEPT !.sightings = Append(@, <<patient_id, date>>)]
      called == [seen EXCEPT !.encrypt_calls = Append(@, patient_id)]
      \* processor.py:81-90 with the result of encrypt_patient_id
      encrypted == encrypt_patient_id(patient_id, secret)
      first_sighting ==
        LET cached == [called EXCEPT !.anonymized_ids =
                         (patient_id :> cache_entry(encrypted.value, date)) @@ @]
            row == mapping_row(date, patient_id, encrypted.value)
            appended ==
              [cached EXCEPT !.ledger = @ \o appended_rows(st.first_row_written, row),
                             !.first_row_written = TRUE]
        IN  IF encrypted.raised THEN called
            ELSE IF io = "ledger_fails" THEN cached
            ELSE name_and_anonymize(appended, input_path, dicom_info,
                                    encrypted.value, date, io)
  IN  IF ~is_dicom_file(file) THEN st
      ELSE IF dicom_info = None THEN st
      ELSE IF is_new_patient(st.anonymized_ids, patient_id)
      THEN first_sighting
      ELSE name_and_anonymize(seen, input_path, dicom_info,
                              st.anonymized_ids[patient_id][1], date,
                              IF io = "ledger_fails" THEN "ok" ELSE io)

IOOutcomes == {"ok", "ledger_fails", "pre_fails", "post_fails"}

\* Mutant: the loop of process_batch ends with the file it has handled.
next_in_batch_stops(pos, batch) == Len(batch) + 1

\* processor.py:66 and 129-132, the loop of process_batch goes on to the next
\* file of the batch, whatever happened to this one
next_in_batch(pos, batch) == pos + 1

\* processor.py:135-148, one file of the walk
Walk ==
  /\ pc = "walk"
  /\ walk_pos <= Len(files)
  /\ LET ignored == files[walk_pos].name \in ignored_files
         batch == IF ignored THEN file_batch ELSE Append(file_batch, walk_pos)
     IN  /\ file_batch' = batch
         /\ pc' = IF ~ignored /\ Len(batch) >= batch_size THEN "batch" ELSE "walk"
  /\ walk_pos' = walk_pos + 1
  /\ batch_pos' = 1
  /\ UNCHANGED <<files, secret, batch_size, anonymized_ids, instance_counter, first_row_written,
                 ledger, out_dir, calls, encrypt_calls, sightings, meta_files,
                 fn_args, fn_result, cur_vars>>

\* processor.py:66-132, process_batch handles the next file of the batch
ProcessFile ==
  /\ pc \in {"batch", "final"}
  /\ batch_pos <= Len(file_batch)
  /\ \E io \in IOOutcomes :
       \E st \in {process_file(BatchState, file_batch[batch_pos], io)} :
           /\ anonymized_ids' = st.anonymized_ids
           /\ instance_counter' = st.instance_counter
           /\ first_row_written' = st.first_row_written
           /\ ledger' = st.ledger
           /\ out_dir' = st.out_dir
           /\ meta_files' = st.meta_files
           /\ calls' = st.calls
           /\ encrypt_calls' = st.encrypt_calls
           /\ sightings' = st.sightings
  /\ batch_pos' = next_in_batch(batch_pos, file_batch)
  /\ UNCHANGED <<files, secret, batch_size, pc, walk_pos, file_batch, fn_args, fn_result, cur_vars>>

\* processor.py:147-148 and 153, process_batch returns
EndBatch ==
  /\ pc \in {"batch", "final"}
  /\ batch_pos > Len(file_batch)
  /\ pc' = IF pc = "batch" THEN "walk" ELSE "done"
  /\ file_batch' = IF pc = "batch" THEN <<>> ELSE file_batch
  /\ UNCHANGED <<files, secret, batch_size, walk_pos, batch_pos, anonymized_ids, instance_counter,
                 first_row_written, ledger, out_dir, calls, encrypt_calls, sightings,
                 meta_files, fn_args, fn_result, cur_vars>>

\* Mutant: the files left in the batch when the walk ends are dropped.
after_walk_drops(batch) == "done"

\* processor.py:150-153, the files left in the batch are the final batch
after_walk(batch) == IF batch # <<>> THEN "final" ELSE "done"

\* processor.py:150-153, the walk is over
EndWalk ==
  /\ pc = "walk"
  /\ walk_pos > Len(files)
  /\ pc' = after_walk(file_batch)
  /\ batch_pos' = 1
  /\ UNCHANGED <<files, secret, batch_size, walk_pos, file_batch, anonymized_ids, instance_counter,
                 first_row_written, ledger, out_dir, calls, encrypt_calls, sightings,
                 meta_files, fn_args, fn_result, cur_vars>>

-----------------------------------------------------------------------------
(* The runs of process_directory *)

MG_R001 ==
  SourceFile("a.dcm", TRUE,
             [ PatientID |-> "R001", Modality |-> "MG", ImageLaterality |-> "L",
               ViewPosition |-> "CC", StudyDate |-> "20230101", InstanceNumber |-> "1",
               PatientName |-> "Doe" ])

US_R001 ==
  SourceFile("b.dcm", TRUE,
             [ PatientID |-> "R001", Modality |-> "US", StudyDate |-> "2023-01-02",
               InstanceNumber |-> "1" ])

MR_R002 ==
  SourceFile("c.dcm", TRUE,
             [ PatientID |-> "R002", Modality |-> "MR", ImageLaterality |-> "R",
               SeriesDescription |-> "T1", StudyDate |-> "20230101",
               InstanceNumber |-> "1" ])

CT_NoPatientID == SourceFile("d.dcm", TRUE, [ Modality |-> "CT" ])

NoModality_R002 ==
  SourceFile("e.dcm", TRUE, [ PatientID |-> "R002", StudyDate |-> "20230103" ])

Marker == SourceFile("DICOMDIR", TRUE, [ PatientID |-> "R003", Modality |-> "OT" ])

\* A file pydicom cannot read.
NotDicom == SourceFile("notes.txt", FALSE, <<>>)

SourceFiles ==
  {MG_R001, US_R001, MR_R002, CT_NoPatientID, NoModality_R002, Marker, NotDicom}

SecretFiles ==
  { SecretFile("missing", ""), SecretFile("unreadable", ""),
    SecretFile("readable", " \n"), SecretFile("readable", "key\n") }

\* The secret files of the runs: a run handles an unreadable file as a
\* missing one, processor.py:131.
RunSecretFiles == {f \in SecretFiles : f.state # "unreadable"}

Init ==
  /\ files \in UNION {[1..n -> SourceFiles] : n \in 0..MaxFiles}
  /\ secret \in RunSecretFiles
  /\ batch_size \in 1..MaxBatchSize
  /\ pc = "walk"
  /\ walk_pos = 1
  /\ file_batch = <<>>
  /\ batch_pos = 1
  /\ anonymized_ids = <<>>
  /\ instance_counter = 0
  /\ first_row_written = FALSE
  /\ ledger = <<>>
  /\ out_dir = {}
  /\ meta_files = {}
  /\ calls = <<>>
  /\ encrypt_calls = <<>>
  /\ sightings = <<>>
  /\ fn_args = <<>>
  /\ fn_result = NotCalled
  /\ CurationIdle

Next == Walk \/ ProcessFile \/ EndBatch \/ EndWalk

Spec == Init /\ [][Next]_vars

-----------------------------------------------------------------------------
(* Function specifications: a function of the pipeline applied to one      *)
(* argument drawn from a bounded set.                                      *)

RunIdle ==
  /\ files = <<>>
  /\ secret = SecretFile("missing", "")
  /\ batch_size = 1
  /\ pc = "idle"
  /\ walk_pos = 1
  /\ file_batch = <<>>
  /\ batch_pos = 1
  /\ anonymized_ids = <<>>
  /\ instance_counter = 0
  /\ first_row_written = FALSE
  /\ ledger = <<>>
  /\ out_dir = {}
  /\ meta_files = {}
  /\ calls = <<>>
  /\ encrypt_calls = <<>>
  /\ sightings = <<>>

(* extract_dicom_info *)

ExtractedAttributes ==
  { "PatientID", "Modality", "ImageLaterality", "ViewPosition", "StudyDate",
    "ScanningSequence", "SeriesDescription", "InstanceNumber" }

Modalities == {"MG", "US", "MR", "CT"}

\* A value of each attribute, for a file of the given modality.
AttributeValue(a, modality) ==
  CASE a = "PatientID" -> "R001"
    [] a = "Modality" -> modality
    [] a = "ImageLaterality" -> "L"
    [] a = "ViewPosition" -> "CC"
    [] a = "StudyDate" -> "20230101"
    [] a = "ScanningSequence" -> "SE"
    [] a = "SeriesDescription" -> "T1"
    [] a = "InstanceNumber" -> "1"

\* The datasets that carry any subset of the extracted attributes.
Datasets ==
  { [a \in present |-> AttributeValue(a, modality)] :
      present \in SUBSET ExtractedAttributes, modality \in Modalities }

InitExtract ==
  /\ RunIdle
  /\ fn_args \in {SourceFile("f.dcm", TRUE, ds) : ds \in Datasets}
                   \cup {SourceFile("f.dcm", FALSE, <<>>)}
  /\ fn_result = NotCalled
  /\ CurationIdle

Extract ==
  /\ ~fn_result.called
  /\ fn_result' = Called(extract_dicom_info(fn_args))
  /\ UNCHANGED <<run_vars, fn_args, cur_vars>>

NextExtract == Extract

SpecExtract == InitExtract /\ [][NextExtract]_vars

(* construct_filename_prefix *)

InitPrefix ==
  /\ RunIdle
  /\ fn_args \in [ anon_patient_id : {"3f9a", "b2"},
                   modality : {"MG", "US", "MR", "MRI", "CT", "NOMODALITY"},
                   view : {"CC", "NOVIEWPOSITION"},
                   laterality : {"L", "R", "", "NOIMAGELATERALITY"},
                   series : {"T1", "NOSERIESDESCRIPTION"} ]
  /\ fn_result = NotCalled
  /\ CurationIdle

Prefix ==
  /\ ~fn_result.called
  /\ fn_result' = Called(construct_filename_prefix(fn_args.anon_patient_id,
                           fn_args.modality, fn_args.view, fn_args.laterality,
                           fn_args.series))
  /\ UNCHANGED <<run_vars, fn_args, cur_vars>>

NextPrefix == Prefix

SpecPrefix == InitPrefix /\ [][NextPrefix]_vars

(* encrypt_patient_id *)

\* The characters lo..hi of a long patient id.
RECURSIVE IdRange(_, _)
IdRange(lo, hi) ==
  IF lo > hi THEN ""
  ELSE IF lo = hi THEN CharAt(Digits, (lo % 10) + 1)
  ELSE LET mid == (lo + hi) \div 2
       IN  IdRange(lo, mid) \o IdRange(mid + 1, hi)

\* A patient id of n characters.
IdOfLen(n) == IdRange(1, n)

InitEncrypt ==
  /\ RunIdle
  /\ fn_args \in [ patient_id : {IdOfLen(n) : n \in 0..MaxLongId} \cup {"R001", "R002"},
                   secret_file : SecretFiles ]
  /\ fn_result = NotCalled
  /\ CurationIdle

Encrypt ==
  /\ ~fn_result.called
  /\ fn_result' = Called(encrypt_patient_id(fn_args.patient_id, fn_args.secret_file))
  /\ UNCHANGED <<run_vars, fn_args, cur_vars>>

NextEncrypt == Encrypt

SpecEncrypt == InitEncrypt /\ [][NextEncrypt]_vars

(* anonymized_dataset *)

\* The elements of the datasets handed to anonymized_dataset: keywords of
\* fields_to_anonymize, two private elements of it, PatientID,
\* PerformingPhysicianName and one element that is not listed.
RedactableElements ==
  { "PatientID", "PatientName", "PatientSex", "InstitutionName",
    "ScheduledProcedureStepDescription", "PerformingPhysicianName",
    "(0x07a3, 0x1019)", "(0x07a3, 0x101c)", "ViewPosition" }

ElementValue(a) == IF a = "PatientID" THEN "R001" ELSE "value of " \o a

RedactDatasets ==
  {[a \in present |-> ElementValue(a)] : present \in SUBSET RedactableElements}

InitRedact ==
  /\ RunIdle
  /\ fn_args \in [ ds : RedactDatasets, anon_params : {[anon_patient_id |-> "cdef"]} ]
  /\ fn_result = NotCalled
  /\ CurationIdle

Redact ==
  /\ ~fn_result.called
  /\ fn_result' = Called(anonymized_dataset(fn_args.ds, fn_args.anon_params))
  /\ UNCHANGED <<run_vars, fn_args, cur_vars>>

NextRedact == Redact

SpecRedact == InitRedact /\ [][NextRedact]_vars

-----------------------------------------------------------------------------
(* Properties of the runs of process_directory (Spec) *)

\* What extract_dicom_info returns for every source file.
ExtractedInfo == [f \in SourceFiles |-> extract_dicom_info(f)]

\* The real patient id of the file of a call of anonymize_dicom_file.
RealIdOf(call) == ExtractedInfo[files[call.input_path]].PatientID

\* The calls of anonymize_dicom_file that wrote an artifact.
WrittenCalls == {k \in DOMAIN calls : calls[k].outcome \in {"ok", "post_fails"}}

\* The data rows of the mapping file: every row but the header.
DataRows == {k \in DOMAIN ledger : ledger[k] # mapping_header}

\* Number of times encrypt_patient_id was invoked on patient_id.
Invocations(patient_id) ==
  Cardinality({k \in DOMAIN encrypt_calls : encrypt_calls[k] = patient_id})

\* The secret phrase cannot be read, or is empty.
SecretUnavailable ==
  read_secret_phrase(secret).raised \/ read_secret_phrase(secret).value = ""

\* The last n characters of s.
Last(s, n) == Drop(s, Len(s) - n)

\* The natural number n written with width decimal digits.
RECURSIVE Decimal(_, _)
Decimal(n, width) ==
  IF width = 0 THEN "" ELSE Decimal(n \div 10, width - 1) \o CharAt(Digits, (n % 10) + 1)

\* The ordinals of a run, as the 8 decimal digits of a file name.
Ordinals == [k \in 1..MaxFiles |-> Decimal(k, 8)]

\* The call is the k-th of the run and its names carry the ordinal k.
NamedWithOrdinal(call, k) ==
  LET info == ExtractedInfo[files[call.input_path]]
      prefix ==
        construct_filename_prefix(call.anon_params.anon_patient_id, info.Modality,
          info.ViewPosition, upper(info.ImageLaterality), info.SeriesDescription)
  IN  /\ call.anon_params.instance = info.InstanceNumber \o "_" \o Ordinals[k]
      /\ call.output_path =
           output_folder \o "/" \o prefix \o "_" \o call.anon_params.date \o "_"
             \o info.InstanceNumber \o "_" \o Ordinals[k] \o ".dcm"

\* C1: in one run, all files of one real patient id are handed to
\* anonymize_dicom_file with one anonymized id, in anon_params and at the
\* head of the output file name, and encrypt_patient_id is invoked at most
\* once per distinct real patient id.
C1_OneAnonIdPerRealId ==
  /\ \A k, m \in DOMAIN calls :
       RealIdOf(calls[k]) = RealIdOf(calls[m])
         => calls[k].anon_params.anon_patient_id = calls[m].anon_params.anon_patient_id
  /\ \A k \in DOMAIN calls :
       startswith(basename(calls[k].output_path),
                  calls[k].anon_params.anon_patient_id \o "_")
  /\ \A k \in DOMAIN encrypt_calls : Invocations(encrypt_calls[k]) <= 1

\* C2: after any prefix of a run the mapping file has at most one data row
\* per real patient id, and each data row is (the date process_directory
\* computed at the first sighting of the id, the id, its anonymized id).
C2_OneLedgerRowPerRealId ==
  /\ ledger # <<>> => ledger[1] = mapping_header
  /\ \A k \in DataRows :
       /\ \A m \in DataRows : ledger[m][2] = ledger[k][2] => m = k
       /\ \E n \in DOMAIN sightings :
            /\ sightings[n][1] = ledger[k][2]
            /\ \A e \in 1..(n - 1) : sightings[e][1] # ledger[k][2]
            /\ ledger[k][1] = sightings[n][2]
       /\ ledger[k][2] \in DOMAIN anonymized_ids
       /\ ledger[k][3] = anonymized_ids[ledger[k][2]][1]

\* C2 witness: a patient sighted twice, on different dates, after the run,
\* with its one data row in the mapping file.
C2_Witness ==
  /\ pc = "done"
  /\ ~SecretUnavailable
  /\ \E n, m \in DOMAIN sightings :
       /\ n < m
       /\ sightings[n][1] = sightings[m][1]
       /\ sightings[n][2] # sightings[m][2]
       /\ \E k \in DataRows : ledger[k][2] = sightings[n][1]
  /\ Len(calls) >= 2

\* C3: every artifact that anonymize_dicom_file has written carries an
\* anonymized id that has a data row in the mapping file (write-ahead
\* ordering), also in runs in which an append to the mapping file raised.
C3_WriteAhead ==
  \A k \in WrittenCalls :
    \E r \in DataRows : ledger[r][3] = calls[k].anon_params.anon_patient_id

\* C4: the ordinal of the output names is one counter of the run: the k-th
\* named file has ordinal k, rendered as 8 decimal digits, its output path is
\* output_folder/{prefix}_{date}_{instanceNumber}_{ordinal}.dcm, and no two
\* output paths of a run are equal.
C4_RunGlobalOrdinal ==
  /\ \A k \in DOMAIN calls : NamedWithOrdinal(calls[k], k)
  /\ \A k, m \in DOMAIN calls : calls[k].output_path = calls[m].output_path => k = m
  /\ instance_counter = Len(calls)

\* C4 witness: two named files that agree on patient, modality, study date
\* and instance number.
C4_Witness ==
  \E k, m \in DOMAIN calls :
    /\ k < m
    /\ ~SecretUnavailable
    /\ [calls[k].anon_params EXCEPT !.instance = ""]
         = [calls[m].anon_params EXCEPT !.instance = ""]
    /\ RealIdOf(calls[k]) = RealIdOf(calls[m])
    /\ calls[k].output_path # calls[m].output_path

\* C6: after anonymize_dicom_file succeeded, the artifact is in the output
\* folder under the name process_directory computed for it.
C6_RenamedToCanonicalName ==
  \A k \in DOMAIN calls :
    calls[k].outcome = "ok" => \E f \in out_dir : f.path = calls[k].output_path

\* C10: a run that finds the secret phrase missing, unreadable or empty is
\* aborted: it does not complete, goes on to no further file, appends no row
\* and writes no artifact.
C10_SecretUnavailableAborts ==
  (SecretUnavailable /\ encrypt_calls # <<>>) =>
    /\ pc # "done"
    /\ Len(encrypt_calls) <= 1
    /\ ledger = <<>>
    /\ out_dir = {}
    /\ calls = <<>>

-----------------------------------------------------------------------------
(* Properties of construct_filename_prefix (SpecPrefix) *)

\* The name schema as claimed: an MR-prefixed modality is named MR.
ClaimedPrefix(a) ==
  CASE a.modality = "MG" ->
         a.anon_patient_id \o "_MG_" \o a.view \o "_" \o a.laterality
    [] a.modality = "US" /\ a.laterality # "" ->
         a.anon_patient_id \o "_US_" \o a.view \o "_" \o a.laterality
    [] a.modality = "US" /\ a.laterality = "" ->
         a.anon_patient_id \o "_US_" \o a.view
    [] a.modality # "MG" /\ a.modality # "US" /\ startswith(a.modality, "MR") ->
         a.anon_patient_id \o "_MR_" \o a.series
    [] OTHER -> a.anon_patient_id \o "_" \o a.modality

\* The name schema with the modality itself in the name of an MR-prefixed
\* modality.
AmendedPrefix(a) ==
  CASE a.modality = "MG" ->
         a.anon_patient_id \o "_MG_" \o a.view \o "_" \o a.laterality
    [] a.modality = "US" /\ a.laterality # "" ->
         a.anon_patient_id \o "_US_" \o a.view \o "_" \o a.laterality
    [] a.modality = "US" /\ a.laterality = "" ->
         a.anon_patient_id \o "_US_" \o a.view
    [] a.modality # "MG" /\ a.modality # "US" /\ startswith(a.modality, "MR") ->
         a.anon_patient_id \o "_" \o a.modality \o "_" \o a.series
    [] OTHER -> a.anon_patient_id \o "_" \o a.modality

\* C5 as claimed: construct_filename_prefix equals the modality-keyed schema
\* in which MR and every modality prefixed MR give {anonId}_MR_{series}.
C5_ModalityKeyedSchema ==
  fn_result.called => fn_result.value = ClaimedPrefix(fn_args)

\* C5 amended: construct_filename_prefix equals the modality-keyed schema in
\* which a modality prefixed MR gives {anonId}_{modality}_{series}; an MG name
\* ends with view and laterality, an MR name does not depend on laterality.
C5_ModalityKeyedSchemaAmended ==
  fn_result.called =>
    /\ fn_result.value = AmendedPrefix(fn_args)
    /\ fn_args.modality = "MG" =>
         Last(fn_result.value, Len(fn_args.view) + Len(fn_args.laterality) + 2)
           = "_" \o fn_args.view \o "_" \o fn_args.laterality
    /\ startswith(fn_args.modality, "MR") =>
         fn_result.value = fn_args.anon_patient_id \o "_" \o fn_args.modality
                             \o "_" \o fn_args.series

\* C5 witness: the prefix of a modality that is prefixed MR and is not MR,
\* with a laterality, has been computed.
C5_Witness ==
  /\ fn_result.called
  /\ startswith(fn_args.modality, "MR")
  /\ fn_args.modality # "MR"
  /\ fn_args.laterality = "L"
  /\ fn_result.value = fn_args.anon_patient_id \o "_MRI_" \o fn_args.series

-----------------------------------------------------------------------------
(* Properties of extract_dicom_info (SpecExtract) *)

Sentinel(a) ==
  CASE a = "PatientID" -> "NOPATIENTID"
    [] a = "Modality" -> "NOMODALITY"
    [] a = "ImageLaterality" -> "NOIMAGELATERALITY"
    [] a = "ViewPosition" -> "NOVIEWPOSITION"
    [] a = "StudyDate" -> "NOSTUDYDATE"
    [] a = "ScanningSequence" -> "NOSCANNINGSEQUENCE"
    [] a = "SeriesDescription" -> "NOSERIESDESCRIPTION"
    [] a = "InstanceNumber" -> "NOINSTANCENUMBER"

\* C7: for a readable file, whichever attributes are absent,
\* extract_dicom_info returns a record in which every absent attribute is its
\* sentinel and every present attribute is the file's value (the laterality
\* of an MR file apart, which is the sentinel by design).
C7_SentinelCompleteness ==
  (fn_result.called /\ fn_args.readable) =>
    /\ fn_result.value # None
    /\ \A a \in ExtractedAttributes :
         IF a \in DOMAIN fn_args.ds
         THEN \/ fn_result.value[a] = fn_args.ds[a]
              \/ a = "ImageLaterality" /\ fn_args.ds["Modality"] = "MR"
         ELSE fn_result.value[a] = Sentinel(a)

\* C8: in the record extract_dicom_info returns, ImageLaterality is the
\* sentinel NOIMAGELATERALITY when the modality of the file is MR, whatever
\* laterality the file carries, and the laterality of the file, when it
\* carries one, for every other modality.
C8_MRLateralityForced ==
  (fn_result.called /\ fn_result.value # None) =>
    /\ fn_result.value.Modality = "MR"
         => fn_result.value.ImageLaterality = "NOIMAGELATERALITY"
    /\ (fn_result.value.Modality # "MR" /\ "ImageLaterality" \in DOMAIN fn_args.ds)
         => fn_result.value.ImageLaterality = fn_args.ds["ImageLaterality"]

\* C8 witness: the record of an MR file that carries a laterality.
C8_Witness ==
  /\ fn_result.called
  /\ fn_result.value # None
  /\ "ImageLaterality" \in DOMAIN fn_args.ds
  /\ fn_args.ds["ImageLaterality"] = "L"
  /\ fn_result.value.Modality = "MR"
  /\ fn_result.value.ImageLaterality = "NOIMAGELATERALITY"

-----------------------------------------------------------------------------
(* Properties of encrypt_patient_id (SpecEncrypt) *)

\* C9: with a secret phrase, the anonymized id encrypt_patient_id returns has
\* the length of the real patient id, for a real id of any length.
C9_LengthPreserved ==
  (fn_result.called /\ ~fn_result.value.raised
     /\ read_secret_phrase(fn_args.secret_file).value # "") =>
    Len(fn_result.value.value) = Len(fn_args.patient_id)

\* C11: encrypt_patient_id rejects an empty real patient id: applied to ""
\* it raises and returns no anonymized id.
C11_EmptyIdRejected ==
  (fn_result.called /\ fn_args.patient_id = "") => fn_result.value.raised

-----------------------------------------------------------------------------
(* Properties of the artifacts of a run (Spec) *)

\* The path under which save_dicom leaves the artifact of a call: the name
\* it renames to, or output_path when save_meta_post failed.
ArtifactPath(call) ==
  IF call.outcome = "ok" THEN new_file_path(call.output_path, call.anon_params)
  ELSE call.output_path

\* C12: after every successful anonymize_dicom_file the written artifact
\* carries a patient identifier and it is anon_params.anon_patient_id, also
\* for a source file without PatientID attribute.
C12_PatientIdOverwritten ==
  \A k \in DOMAIN calls :
    calls[k].outcome = "ok" =>
      \E f \in out_dir :
        /\ f.path = ArtifactPath(calls[k])
        /\ "PatientID" \in DOMAIN f.ds
        /\ f.ds["PatientID"] = calls[k].anon_params.anon_patient_id

-----------------------------------------------------------------------------
(* Properties of anonymized_dataset (SpecRedact) *)

\* The fixed redaction list.
RedactionList == {fields_to_anonymize[k] : k \in DOMAIN fields_to_anonymize}

\* C13: every field of the redaction list, the vendor-private tags included,
\* that the source carries is blank in the dataset anonymize_dicom_file
\* writes, and every listed field the source does not carry stays absent.
C13_RedactionListBlanked ==
  fn_result.called =>
    \A a \in RedactionList :
      IF a \in DOMAIN fn_args.ds
      THEN a \in DOMAIN fn_result.value /\ fn_result.value[a] = ""
      ELSE a \notin DOMAIN fn_result.value

\* The paths a run has written to, renamed to or renamed from.
TouchedPaths ==
  {f.path : f \in out_dir} \cup meta_files
    \cup {calls[k].output_path : k \in {j \in DOMAIN calls : calls[j].outcome # "pre_fails"}}

\* C14: no step of a run writes to, renames or deletes a source file: every
\* path a run touches is outside the source tree, and the source tree is the
\* same after every step, whether the file was processed or failed.
C14_SourceUntouched ==
  /\ [](\A p \in TouchedPaths :
          /\ ~startswith(p, source_folder \o "/")
          /\ \A i \in DOMAIN files : p # source_path(i))
  /\ [][files' = files]_vars

\* C14 witness: a run that is over, in which one file was written and
\* renamed and another one failed in anonymize_dicom_file.
C14_Witness ==
  /\ pc = "done"
  /\ \E k, m \in DOMAIN calls :
       /\ calls[k].outcome = "ok"
       /\ calls[m].outcome \in {"pre_fails", "post_fails"}
       /\ ArtifactPath(calls[k]) \in TouchedPaths

\* The files of the walk that are left to process_batch: all of file_batch
\* while the walk collects it, its files from batch_pos on afterwards.
Pending ==
  IF pc = "walk" THEN {file_batch[k] : k \in DOMAIN file_batch}
  ELSE {file_batch[k] : k \in batch_pos..Len(file_batch)}

\* The files the loop of process_batch has passed.
Passed ==
  {i \in 1..(walk_pos - 1) : files[i].name \notin ignored_files /\ i \notin Pending}

\* <<patient_id, date>> of the files among the first n that process_batch
\* has passed and extract_dicom_info returns a record for, in walk order.
RECURSIVE ExpectedSightings(_)
ExpectedSightings(n) ==
  IF n = 0 THEN <<>>
  ELSE LET before == ExpectedSightings(n - 1)
           info == ExtractedInfo[files[n]]
       IN  IF n \in Passed /\ info # None
           THEN Append(before, <<info.PatientID, replace(info.StudyDate, "-", "")>>)
           ELSE before

\* C15: a failure while one file is processed never aborts the run: every
\* file the loop has passed that extract_dicom_info returns a record for was
\* taken up, whatever happened to the files before it, and when the run is
\* over the loop has passed every file of the walk that is not ignored.
C15_FailureNeverAborts ==
  /\ sightings = ExpectedSightings(Len(files))
  /\ pc = "done" =>
       Passed = {i \in DOMAIN files : files[i].name \notin ignored_files}
  /\ \A k \in DOMAIN calls : calls[k].input_path \in Passed

\* C15 witness: a run that is over, in which a file was written after a file
\* that failed: one that is unreadable, one extract_dicom_info returns None
\* for, or one whose processing raised.
C15_Witness ==
  /\ pc = "done"
  /\ \E k \in DOMAIN calls :
       /\ calls[k].outcome = "ok"
       /\ \E i \in 1..(calls[k].input_path - 1) :
            /\ files[i].name \notin ignored_files
            /\ \/ ~files[i].readable
               \/ ExtractedInfo[files[i]] = None
               \/ \A m \in DOMAIN calls : calls[m].input_path # i

(***************************************************************************)
(* Curation: src/src/validation/explorer.py, identifier.py and             *)
(* reidentified.py move the candidate files between the stage directories  *)
(* unexplored, checking, identified, checked and unsolvable.  A step of    *)
(* the model is what a script does to one file of the directory it walks.  *)
(***************************************************************************)

MaxCandidates == 2

Stages ==
  {"unexplored", "checking", "identified", "verifying", "comparing", "compared",
   "checked", "unsolvable", "incongruities"}

\* A file of a stage directory.  id is not part of the file: it follows the
\* file through its renames.
Candidate(id, name, readable, ds) ==
  [id |-> id, name |-> name, readable |-> readable, ds |-> ds]

\* The lower-case letter of every upper-case letter.
ToLower ==
  [c \in {CharAt(Uppercase, k) : k \in 1..Len(Uppercase)} |->
     CharAt(Lowercase, CHOOSE k \in 1..Len(Uppercase) : CharAt(Uppercase, k) = c)]

LowerChar(c) == IF c \in DOMAIN ToLower THEN ToLower[c] ELSE c

\* str.lower()
RECURSIVE lower(_)
lower(s) ==
  LET rest == Drop(s, 1)
  IN  IF s = "" THEN "" ELSE LowerChar(CharAt(s, 1)) \o lower(rest)

\* Position of the first sep of s, 0 when it has none.
find(s, sep) ==
  LET hits == {k \in 1..Len(s) : CharAt(s, k) = sep}
  IN  IF hits = {} THEN 0 ELSE CHOOSE k \in hits : \A m \in hits : k <= m

\* str.split(sep) for a one-character sep
RECURSIVE split(_, _)
split(s, sep) ==
  LET at == find(s, sep)
      rest == Drop(s, at)
  IN  IF at = 0 THEN <<s>> ELSE <<Take(s, at - 1)>> \o split(rest, sep)

\* sep.join(parts) for a list with at least one part
RECURSIVE join(_, _)
join(parts, sep) ==
  LET rest == Tail(parts)
  IN  IF Len(parts) = 1 THEN parts[1] ELSE parts[1] \o sep \o join(rest, sep)

\* A value that is a text or None: the text s is Text(s).
Text(s) == [text |-> s]

\* Python's truth value of a text or None.
Truthy(v) == v # None /\ v.text # ""

\* dataset.get(keyword, default) of pydicom
dataset_get(ds, a, default) == IF hasattr(ds, a) THEN Text(ds[a]) ELSE default

\* identifier.py.  The texts of the model hold no zero-width space, the
\* character the last replace removes.
normalize_string(s) == LET stripped == strip(s) IN lower(stripped)

\* The rows of the mapping file under the header: real id, anonymized id.
mapping_rows == << <<"R001", "cdef">>, <<"R002", "9abc">>, <<"r003", "aaaa">> >>

\* identifier.py: a later row of a real id replaces the earlier one.
identifier_load_mapping(rows) ==
  LET long == {i \in DOMAIN rows : Len(rows[i]) >= 2}
      real_id == [i \in long |-> normalize_string(rows[i][1])]
  IN  [k \in {real_id[i] : i \in long} |->
         normalize_string(rows[CHOOSE i \in long :
                                 /\ real_id[i] = k
                                 /\ \A j \in long : real_id[j] = k => j <= i][2])]

\* reidentified.py: the rows are taken as they are written.  A row of fewer
\* than two fields is left out; `real_id, anonymized_id = row` raises
\* ValueError on a row of more than two, which ends the reading with the
\* rows read before it.
reidentified_load_mapping(rows) ==
  LET read == {i \in DOMAIN rows : \A j \in 1..i : Len(rows[j]) <= 2}
      valid == {i \in read : Len(rows[i]) = 2}
  IN  [k \in {rows[i][1] : i \in valid} |->
         rows[CHOOSE i \in valid :
                /\ rows[i][1] = k
                /\ \A j \in valid : rows[j][1] = k => j <= i][2]]

\* dict.get(key) of Python
dict_get(d, k) == IF k # None /\ k.text \in DOMAIN d THEN Text(d[k.text]) ELSE None

\* The rows of the curation file of explorer.py under its header.
curation_rows ==
  << <<"1", "cdef">>, <<"2", " 9abc">>, <<"3", "aaaa">>, <<"4", "beef">>, <<"5">> >>

load_patient_ids(rows) ==
  {strip(rows[i][2]) : i \in {j \in DOMAIN rows : Len(rows[j]) >= 2}}

FILE_LIMIT == 10

(* The raw directory: the source files the candidates were derived from. *)

Raw_R001_CC ==
  SourceFile("IM0001", TRUE,
             [ SOPInstanceUID |-> "1.2.1", PatientID |-> "R001", InstanceNumber |-> "1",
               ViewPosition |-> "CC", ImageLaterality |-> "L" ])

Raw_R002_MLO ==
  SourceFile("IM0002", TRUE,
             [ SOPInstanceUID |-> "1.2.2", PatientID |-> "R002", InstanceNumber |-> "1",
               ViewPosition |-> "MLO", ImageLaterality |-> "R" ])

Raw_R003_CC ==
  SourceFile("IM0003", TRUE,
             [ SOPInstanceUID |-> "1.2.3", PatientID |-> "R003", InstanceNumber |-> "2",
               ViewPosition |-> "CC", ImageLaterality |-> "R" ])

\* A patient the mapping file has no row of.
Raw_R004_CC ==
  SourceFile("IM0004", TRUE,
             [ SOPInstanceUID |-> "1.2.4", PatientID |-> "R004", InstanceNumber |-> "3",
               ViewPosition |-> "CC", ImageLaterality |-> "L" ])

Raw_R001_MLO ==
  SourceFile("IM0005", TRUE,
             [ SOPInstanceUID |-> "1.2.5", PatientID |-> "R001", InstanceNumber |-> "2",
               ViewPosition |-> "MLO", ImageLaterality |-> "L" ])

Raw_Text == SourceFile("README", FALSE, <<>>)

\* The files of the raw directory in the order os.walk lists them.
raw_dir ==
  <<Raw_R001_CC, Raw_R002_MLO, Raw_R003_CC, Raw_R004_CC, Raw_R001_MLO, Raw_Text>>

(* validation: reading a file *)

get_sop_instance_uid(file) ==
  IF file.readable THEN dataset_get(file.ds, "SOPInstanceUID", None) ELSE None

\* explorer.py
extract_patient_id(file) ==
  IF file.readable /\ hasattr(file.ds, "PatientID") THEN Text(file.ds.PatientID) ELSE None

identifier_get_patient_id(file) ==
  IF file.readable
  THEN Text(normalize_string(dataset_get(file.ds, "PatientID", Text("Unknown")).text))
  ELSE None

reidentified_get_patient_id(file) ==
  IF file.readable THEN dataset_get(file.ds, "PatientID", Text("Unknown")) ELSE None

\* For every SOPInstanceUID of the raw directory the position of the last
\* file that carries it.
load_sop_instance_uid_map(raw) ==
  LET keyed == {i \in DOMAIN raw : raw[i].readable /\ Truthy(get_sop_instance_uid(raw[i]))}
  IN  [u \in {get_sop_instance_uid(raw[i]).text : i \in keyed} |->
         CHOOSE i \in keyed :
           /\ get_sop_instance_uid(raw[i]).text = u
           /\ \A j \in keyed : get_sop_instance_uid(raw[j]).text = u => j <= i]

\* rename_file of identifier.py and reidentified.py
rename_file(file_name, new_patient_id) ==
  LET parts == split(file_name, "_")
  IN  join([parts EXCEPT ![1] = new_patient_id], "_")

\* reidentified.py: the data set is saved with the new PatientID.
update_patient_id(file, new_patient_id) ==
  IF file.readable
  THEN [file EXCEPT !.ds = [a \in DOMAIN file.ds \cup {"PatientID"} |->
                              IF a = "PatientID" THEN new_patient_id ELSE file.ds[a]]]
  ELSE file

(* validation: moving a file *)

InStage(st, stage, file) == file \in st[stage]

\* A move that leaves the file in the directory it came from.
move_file_copies(st, from, file, to, new_name) ==
  IF InStage(st, from, file)
  THEN [st EXCEPT ![to] = {f \in @ : f.name # new_name} \cup {[file EXCEPT !.name = new_name]}]
  ELSE st

\* move_file of identifier.py and reidentified.py: shutil.move to the path
\* of a file renames the file and replaces a file of that name.
move_file(st, from, file, to, new_name) ==
  IF InStage(st, from, file)
  THEN [st EXCEPT ![from] = @ \ {file},
                  ![to] = {f \in @ : f.name # new_name} \cup {[file EXCEPT !.name = new_name]}]
  ELSE st

\* explorer.py: shutil.move to a directory raises when the directory holds a
\* file of that name, and the file stays where it is.
move_file_to_checking(st, file, dest_dir) ==
  IF \E f \in st[dest_dir] : f.name = file.name THEN st
  ELSE [st EXCEPT !["unexplored"] = @ \ {file}, ![dest_dir] = @ \cup {file}]

\* The stage directory that holds the file id after a step, "nowhere" when
\* no directory holds it.
StageOf(st, id) ==
  IF \E s \in Stages : \E f \in st[s] : f.id = id
  THEN CHOOSE s \in Stages : \E f \in st[s] : f.id = id
  ELSE "nowhere"

\* The file id as it is after a step, the file as it was when no directory
\* holds it.
FileOf(st, file) ==
  LET held == {f \in UNION {st[s] : s \in Stages} : f.id = file.id}
  IN  IF held = {} THEN file ELSE CHOOSE f \in held : TRUE

\* What a step did to a file: the step, the file before and after it, the
\* directory it was in and the one it is in now, the raw file the step
\* matched it with (0: none) and the attribute the match was made by.
Handled(step, file, from, st, raw_pos, by) ==
  [step |-> step, id |-> file.id, file |-> file, after |-> FileOf(st, file),
   from |-> from, to |-> StageOf(st, file.id), raw |-> raw_pos, by |-> by]

HandledBy(step) == {k \in DOMAIN moves : moves[k].step = step}

(* explorer.py: process_dicom_files *)

explored(st, file, patient_ids) ==
  LET patient_id == extract_patient_id(file)
  IN  IF Truthy(patient_id) /\ patient_id.text \in patient_ids
      THEN move_file_to_checking(st, file, "checking")
      ELSE st

Explore ==
  \E file \in stages["unexplored"] :
    /\ Cardinality(HandledBy("explorer")) < FILE_LIMIT
    /\ \A k \in HandledBy("explorer") : moves[k].id # file.id
    /\ \E st \in {explored(stages, file, load_patient_ids(curation_rows))} :
         /\ stages' = st
         /\ moves' = Append(moves, Handled("explorer", file, "unexplored", st, 0, "PatientID"))
    /\ UNCHANGED <<run_vars, legacy_anon_patient_id, fn_args, fn_result, pool>>

(* identifier.py: process_file *)

\* The position in the raw directory of the file identifier.py matches the
\* candidate with, 0 when it matches none.
identifier_match(file, sop_map) ==
  LET sop == get_sop_instance_uid(file)
  IN  IF file.readable /\ Truthy(sop) /\ sop.text \in DOMAIN sop_map
      THEN sop_map[sop.text]
      ELSE 0

identifier_process_file(st, file, sop_map, mapping) ==
  LET raw_pos == identifier_match(file, sop_map)
      real_patient_id == identifier_get_patient_id(raw_dir[raw_pos])
      anonymized_patient_id == dict_get(mapping, real_patient_id)
  IN  IF ~file.readable THEN move_file(st, "checking", file, "unsolvable", file.name)
      ELSE IF ~Truthy(get_sop_instance_uid(file))
      THEN move_file(st, "checking", file, "unsolvable", file.name)
      ELSE IF raw_pos # 0
      THEN IF Truthy(anonymized_patient_id)
           THEN move_file(st, "checking", file, "identified",
                          rename_file(file.name, anonymized_patient_id.text))
           ELSE move_file(st, "checking", file, "unsolvable", file.name)
      ELSE move_file(st, "checking", file, "unsolvable", file.name)

Identify ==
  \E file \in stages["checking"] :
    \E sop_map \in {load_sop_instance_uid_map(raw_dir)} :
      \E st \in {identifier_process_file(stages, file, sop_map,
                                         identifier_load_mapping(mapping_rows))} :
        /\ stages' = st
        /\ moves' = Append(moves, Handled("identifier", file, "checking", st,
                                          identifier_match(file, sop_map), "SOPInstanceUID"))
        /\ UNCHANGED <<run_vars, legacy_anon_patient_id, fn_args, fn_result, pool>>

(* reidentified.py: process_identified_files *)

\* The position of the first file of the raw directory that carries the
\* SOPInstanceUID of the candidate, 0 when none does.
reidentified_match(file) ==
  LET sop == get_sop_instance_uid(file)
      hits == {i \in DOMAIN raw_dir :
                 raw_dir[i].readable /\ get_sop_instance_uid(raw_dir[i]) = sop}
  IN  IF file.readable /\ sop # None /\ hits # {}
      THEN CHOOSE i \in hits : \A j \in hits : i <= j
      ELSE 0

process_identified_file(st, file, mapping) ==
  LET raw_pos == reidentified_match(file)
      real_patient_id == reidentified_get_patient_id(raw_dir[raw_pos])
      anonymized_patient_id == dict_get(mapping, real_patient_id)
      updated == update_patient_id(file, anonymized_patient_id.text)
  IN  IF ~file.readable THEN st
      ELSE IF get_sop_instance_uid(file) = None
      THEN move_file(st, "identified", file, "unsolvable", file.name)
      ELSE IF raw_pos = 0
      THEN move_file(st, "identified", file, "unsolvable", file.name)
      ELSE IF real_patient_id = None \/ anonymized_patient_id = None
      THEN move_file(st, "identified", file, "unsolvable", file.name)
      ELSE move_file([st EXCEPT !["identified"] = (@ \ {file}) \cup {updated}],
                     "identified", updated, "checked",
                     rename_file(file.name, anonymized_patient_id.text))

Reidentify ==
  \E file \in stages["identified"] :
    /\ \A k \in HandledBy("reidentified") : moves[k].id # file.id
    /\ \E st \in {process_identified_file(stages, file,
                                          reidentified_load_mapping(mapping_rows))} :
         /\ stages' = st
         /\ moves' = Append(moves, Handled("reidentified", file, "identified", st,
                                           reidentified_match(file), "SOPInstanceUID"))
    /\ UNCHANGED <<run_vars, legacy_anon_patient_id, fn_args, fn_result, pool>>

(* The candidates of the curation *)

CandidateFile(name, readable, ds) == [name |-> name, readable |-> readable, ds |-> ds]

Cand_R001 ==
  CandidateFile("cdef_MG_CC_L_20230101_1_00000001.dcm", TRUE,
                [ SOPInstanceUID |-> "1.2.1", PatientID |-> "cdef", InstanceNumber |-> "1" ])

Cand_R002 ==
  CandidateFile("9abc_MG_MLO_R_20230101_1_00000002.dcm", TRUE,
                [ SOPInstanceUID |-> "1.2.2", PatientID |-> "9abc", InstanceNumber |-> "1" ])

Cand_R003 ==
  CandidateFile("aaaa_MG_CC_R_20230101_2_00000003.dcm", TRUE,
                [ SOPInstanceUID |-> "1.2.3", PatientID |-> "aaaa", InstanceNumber |-> "2" ])

Cand_R004 ==
  CandidateFile("bbbb_MG_CC_L_20230101_3_00000004.dcm", TRUE,
                [ SOPInstanceUID |-> "1.2.4", PatientID |-> "bbbb", InstanceNumber |-> "3" ])

\* A candidate of R001 that carries an anonymized id the mapping file does
\* not give R001.
Cand_Stale ==
  CandidateFile("beef_MG_MLO_L_20230101_2_00000005.dcm", TRUE,
                [ SOPInstanceUID |-> "1.2.5", PatientID |-> "beef", InstanceNumber |-> "2" ])

Cand_NoMatch ==
  CandidateFile("cdef_MG_CC_L_20230101_4_00000006.dcm", TRUE,
                [ SOPInstanceUID |-> "1.2.9", PatientID |-> "cdef", InstanceNumber |-> "4" ])

Cand_NoKey ==
  CandidateFile("9abc_MG_CC_R_20230101_2_00000007.dcm", TRUE,
                [ PatientID |-> "9abc", InstanceNumber |-> "2" ])

Cand_NotDicom == CandidateFile("notes.txt", FALSE, <<>>)

\* The files an operator may put into a directory, in the order of their
\* names' ordinals.
CandidateFiles ==
  <<Cand_R001, Cand_R002, Cand_R003, Cand_R004, Cand_Stale, Cand_NoMatch, Cand_NoKey,
    Cand_NotDicom>>

\* The directories an operator fills: explorer.py reads unexplored,
\* identifier.py reads checking.
EntryStages == {"unexplored", "checking"}

InitCuration ==
  /\ RunIdle
  /\ fn_args = <<>>
  /\ fn_result = NotCalled
  /\ \E n \in 1..MaxCandidates :
       \E chosen \in [1..n -> DOMAIN CandidateFiles] :
         \E place \in [1..n -> EntryStages] :
           /\ \A i, j \in 1..n : i < j => chosen[i] < chosen[j]
           /\ stages = [s \in Stages |->
                          {Candidate(i, CandidateFiles[chosen[i]].name,
                                     CandidateFiles[chosen[i]].readable,
                                     CandidateFiles[chosen[i]].ds) :
                             i \in {j \in 1..n : place[j] = s}}]
  /\ moves = <<>>
  /\ pool = PoolIdle
  /\ legacy_anon_patient_id = Unbound

NextCuration == Explore \/ Identify \/ Reidentify

SpecCuration == InitCuration /\ [][NextCuration]_vars

-----------------------------------------------------------------------------
(* Properties of the curation (SpecCuration) *)

\* The stage directories that hold the file id.
StagesOf(st, id) == {s \in Stages : \E f \in st[s] : f.id = id}

CandidateIds == 1..MaxCandidates

CurationSteps == {"explorer", "identifier", "reidentified"}

\* C16: after any sequence of steps of explorer, identifier and reidentified
\* every candidate file is in at most one stage directory, and the step that
\* makes a file appear in a stage directory removes it from the directory it
\* was in: no step copies a file.
C16_StageExclusivity ==
  [][\A id \in CandidateIds :
       /\ Cardinality(StagesOf(stages, id)) <= 1
       /\ Cardinality(StagesOf(stages', id)) <= 1
       /\ \A s \in StagesOf(stages', id) \ StagesOf(stages, id) :
            /\ StagesOf(stages, id) # {}
            /\ StagesOf(stages', id) = {s}]_vars

\* A candidate has gone through explorer, identifier and reidentified and is
\* in the checked directory only.
C16_Witness ==
  \E id \in CandidateIds :
    /\ StagesOf(stages, id) = {"checked"}
    /\ \A step \in CurationSteps :
         \E k \in DOMAIN moves :
           moves[k].id = id /\ moves[k].step = step /\ moves[k].to # moves[k].from

\* The transitions of the state machine of the stages.
StageTransitions ==
  { <<"unexplored", "checking">>, <<"checking", "identified">>,
    <<"identified", "checked">>, <<"checking", "unsolvable">>,
    <<"identified", "incongruities">>, <<"checked", "incongruities">> }

\* C17: every stage change made by explorer, identifier and reidentified is
\* one of Unexplored to Checking, Checking to Identified, Identified to
\* Checked, Checking to Unsolvable and Identified or Checked to
\* Incongruities; no file is moved along another edge or out of Unsolvable.
C17_OnlyStateMachineEdges ==
  \A k \in DOMAIN moves :
    (moves[k].step \in CurationSteps /\ moves[k].to # moves[k].from) =>
      <<moves[k].from, moves[k].to>> \in StageTransitions

\* The positions of the readable files of the raw directory whose
\* SOPInstanceUID is that of the candidate.
SourcesWithKeyOf(file) ==
  {i \in DOMAIN raw_dir :
     /\ file.readable /\ raw_dir[i].readable
     /\ hasattr(file.ds, "SOPInstanceUID") /\ hasattr(raw_dir[i].ds, "SOPInstanceUID")
     /\ file.ds.SOPInstanceUID = raw_dir[i].ds.SOPInstanceUID}

Reconcilers == {"identifier", "reidentified"}

\* C18: a candidate handled by identifier.process_file or by
\* reidentified.process_identified_files whose SOPInstanceUID is that of
\* exactly one source file is moved to identified or checked, one whose
\* SOPInstanceUID is that of no source file is moved to unsolvable, and no
\* handled candidate stays in the stage it was in.
C18_ReconcilerRouting ==
  \A k \in DOMAIN moves :
    moves[k].step \in Reconcilers =>
      /\ Cardinality(SourcesWithKeyOf(moves[k].file)) = 1 =>
           moves[k].to \in {"identified", "checked"}
      /\ SourcesWithKeyOf(moves[k].file) = {} => moves[k].to = "unsolvable"
      /\ moves[k].to # moves[k].from

-----------------------------------------------------------------------------
(* src/src/compare.py: process_dicom takes the view and the laterality of  *)
(* the mammography files of checking from the raw directory.               *)

\* sub in s of Python
contains(s, sub) ==
  \E k \in 1..(Len(s) - Len(sub) + 1) : SubSeq(s, k, k + Len(sub) - 1) = sub

\* compare.py: anonymized id -> real id, a later row replaces an earlier one.
compare_load_mapping(rows) ==
  [k \in {rows[i][2] : i \in DOMAIN rows} |->
     rows[CHOOSE i \in DOMAIN rows :
            /\ rows[i][2] = k
            /\ \A j \in DOMAIN rows : rows[j][2] = k => j <= i][1]]

\* get_metadata(dicom_file, [tag])[tag]
get_metadata(file, tag) ==
  IF file.readable /\ hasattr(file.ds, tag) THEN file.ds[tag] ELSE "Unknown"

\* find_dicom_files: the positions of the files of the raw directory pydicom
\* can read.
find_dicom_files(raw) == {i \in DOMAIN raw : raw[i].readable}

\* The position of the first raw file with the InstanceNumber of the
\* candidate, a view and a laterality, 0 when there is none: after the move
\* the candidate is no longer at its path and later raw files change nothing.
compare_match(file) ==
  LET hits == {i \in find_dicom_files(raw_dir) :
                 /\ get_metadata(file, "InstanceNumber")
                      = get_metadata(raw_dir[i], "InstanceNumber")
                 /\ get_metadata(raw_dir[i], "ViewPosition") # "Unknown"
                 /\ get_metadata(raw_dir[i], "ImageLaterality") # "Unknown"}
  IN  IF hits = {} THEN 0 ELSE CHOOSE i \in hits : \A j \in hits : i <= j

compare_rename_file(file_name, view_position, image_laterality) ==
  LET parts == split(file_name, "_")
  IN  join([parts EXCEPT ![3] = view_position, ![4] = image_laterality], "_")

\* A name of fewer than four parts makes rename_file raise IndexError, which
\* ends the script before the move.
compare_process_dicom(st, file, mapping) ==
  LET anonymized_id == split(file.name, "_")[1]
      raw_pos == compare_match(file)
      new_file_name ==
        compare_rename_file(file.name, get_metadata(raw_dir[raw_pos], "ViewPosition"),
                            get_metadata(raw_dir[raw_pos], "ImageLaterality"))
  IN  IF ~contains(file.name, "_MG_") THEN st
      ELSE IF ~(anonymized_id \in DOMAIN mapping /\ mapping[anonymized_id] # "") THEN st
      ELSE IF raw_pos = 0 \/ Len(split(file.name, "_")) < 4 THEN st
      ELSE move_file(st, "checking", file, "checked", new_file_name)

Compare ==
  \E file \in stages["checking"] :
    /\ \A k \in HandledBy("compare") : moves[k].id # file.id
    /\ \E st \in {compare_process_dicom(stages, file, compare_load_mapping(mapping_rows))} :
         /\ stages' = st
         /\ moves' = Append(moves,
                            Handled("compare", file, "checking", st,
                                    IF st = stages THEN 0 ELSE compare_match(file),
                                    "InstanceNumber"))
    /\ UNCHANGED <<run_vars, legacy_anon_patient_id, fn_args, fn_result, pool>>

\* The curation with the scripts of src/src at work on the same directories.
NextReconcile == Explore \/ Identify \/ Reidentify \/ Compare

SpecReconcile == InitCuration /\ [][NextReconcile]_vars

(* Properties of the reconciliation (SpecReconcile) *)

\* C19: no step pairs a candidate with a source file by InstanceNumber when
\* both carry a SOPInstanceUID: a candidate and a source file with different
\* SOPInstanceUIDs are never matched, renamed or moved on the basis of each
\* other.
C19_NoOrdinalMatchWhenKeyed ==
  \A k \in DOMAIN moves :
    LET file == moves[k].file
        source == raw_dir[moves[k].raw]
    IN  ( /\ moves[k].raw # 0
          /\ hasattr(file.ds, "SOPInstanceUID")
          /\ hasattr(source.ds, "SOPInstanceUID") ) =>
          file.ds.SOPInstanceUID = source.ds.SOPInstanceUID

\* The MappingStore: the anonymized id the mapping file gives a real id.
MappingStore == reidentified_load_mapping(mapping_rows)

\* The anonymized id of the MappingStore for the patient of a raw file.
AuthoritativeId(raw_pos) ==
  dict_get(MappingStore, reidentified_get_patient_id(raw_dir[raw_pos]))

\* C20: after identifier or reidentified has processed a matched candidate
\* whose embedded anonymized id differs from the id the MappingStore gives
\* the matched real id, the PatientID of its data set and the id prefix of
\* its file name both are the id of the MappingStore.
C20_MappingInconsistencyCorrected ==
  \A k \in DOMAIN moves :
    LET handled == moves[k]
        authoritative == AuthoritativeId(handled.raw)
    IN  ( /\ handled.step \in Reconcilers
          /\ handled.raw # 0
          /\ authoritative # None
          /\ dataset_get(handled.file.ds, "PatientID", None) # authoritative ) =>
          /\ dataset_get(handled.after.ds, "PatientID", None) = authoritative
          /\ split(handled.after.name, "_")[1] = authoritative.text

-----------------------------------------------------------------------------
(* identifier.py: process_checking_files_in_batches hands every batch of   *)
(* the checking directory to a pool of workers with apply_async and leaves *)
(* the with block of the pool, which terminates the pool.                  *)

identifier_BATCH_SIZE == 500

\* The orders os.listdir may list the files of a directory in.
listdir(dir) ==
  LET names == {f.name : f \in dir}
  IN  {order \in [1..Cardinality(names) -> names] :
         \A i, j \in DOMAIN order : order[i] = order[j] => i = j}

\* all_files[i:i + BATCH_SIZE] for a 0-based i
batch_of(all_files, i) ==
  SubSeq(all_files, i + 1, Min(i + identifier_BATCH_SIZE, Len(all_files)))

\* identifier.py:311-312
ListChecking ==
  /\ pool.state = "idle"
  /\ stages["checking"] # {}
  /\ \E all_files \in listdir(stages["checking"]) :
       pool' = [state |-> "listed", all_files |-> all_files, i |-> 0, start |-> stages]
  /\ UNCHANGED <<run_vars, legacy_anon_patient_id, fn_args, fn_result, stages, moves>>

\* identifier.py:315-320, the pool is created and the batch is submitted:
\* apply_async returns at once.
Submit ==
  /\ pool.state = "listed"
  /\ pool.i < Len(pool.all_files)
  /\ pool' = [state |-> "open", all_files |-> pool.all_files, i |-> pool.i,
              start |-> pool.start, batch |-> batch_of(pool.all_files, pool.i),
              done |-> 0]
  /\ UNCHANGED <<run_vars, legacy_anon_patient_id, fn_args, fn_result, stages, moves>>

\* identifier.py:284-297, a worker of the pool runs batch_process_files: the
\* next file of the batch goes through process_file.
Work ==
  /\ pool.state = "open"
  /\ pool.done < Len(pool.batch)
  /\ \E file \in {f \in stages["checking"] : f.name = pool.batch[pool.done + 1]} :
       \E sop_map \in {load_sop_instance_uid_map(raw_dir)} :
         \E st \in {identifier_process_file(stages, file, sop_map,
                                            identifier_load_mapping(mapping_rows))} :
           /\ stages' = st
           /\ moves' = Append(moves, Handled("identifier", file, "checking", st,
                                             identifier_match(file, sop_map),
                                             "SOPInstanceUID"))
  /\ pool' = [pool EXCEPT !.done = @ + 1]
  /\ UNCHANGED <<run_vars, legacy_anon_patient_id, fn_args, fn_result>>

\* identifier.py:319-320, the with block ends: Pool.__exit__ terminates the
\* workers, whatever they have done of the batch, and the loop goes on.
ExitPool ==
  /\ pool.state = "open"
  /\ LET i == pool.i + identifier_BATCH_SIZE
     IN  pool' = [state |-> IF i < Len(pool.all_files) THEN "listed" ELSE "returned",
                  all_files |-> pool.all_files, i |-> i, start |-> pool.start]
  /\ UNCHANGED <<run_vars, legacy_anon_patient_id, fn_args, fn_result, stages, moves>>

NextPool == ListChecking \/ Submit \/ Work \/ ExitPool

SpecPool == InitCuration /\ [][NextPool]_vars

(* Properties of the parallel identifier (SpecPool) *)

\* The stage directories after process_file has handled the files of names
\* one after another.
RECURSIVE one_after_another(_, _)
one_after_another(st, names) ==
  LET held == {f \in st["checking"] : f.name = names[1]}
      next == IF held = {} THEN st
              ELSE identifier_process_file(st, CHOOSE f \in held : TRUE,
                                           load_sop_instance_uid_map(raw_dir),
                                           identifier_load_mapping(mapping_rows))
      rest == Tail(names)
  IN  IF names = <<>> THEN st ELSE one_after_another(next, rest)

\* C21: whatever the workers did in whatever order, the parallel identifier
\* leaves every candidate in the stage directory in which processing the
\* same candidates one after another with process_file leaves it.
C21_PartitionSafety ==
  pool.state = "returned" =>
    \A id \in CandidateIds :
      StageOf(stages, id) = StageOf(one_after_another(pool.start, pool.all_files), id)

\* The candidates that were in the checking directory when the run started.
ListedIds == {f.id : f \in pool.start["checking"]}

\* C24: when process_checking_files_in_batches returns, every file that was
\* in the checking directory when it started has been handled by
\* process_file and is in identified or in unsolvable: no submitted batch is
\* dropped before its files were handled.
C24_PoolCompletes ==
  pool.state = "returned" =>
    \A id \in ListedIds :
      /\ \E k \in HandledBy("identifier") : moves[k].id = id
      /\ StageOf(stages, id) \in {"identified", "unsolvable"}

-----------------------------------------------------------------------------
(* Properties of the batches of process_directory (Spec) *)

\* The state of process_batch when process_directory starts.
FreshBatchState ==
  [ anonymized_ids |-> <<>>, instance_counter |-> 0, first_row_written |-> FALSE,
    ledger |-> <<>>, out_dir |-> {}, meta_files |-> {}, calls |-> <<>>,
    encrypt_calls |-> <<>>, sightings |-> <<>> ]

\* The write that failed while file i was processed, read from the calls of
\* the run: a file that was taken up and has no call lost its ledger row.
FailedWrite(i) ==
  LET made == {k \in DOMAIN calls : calls[k].input_path = i}
  IN  IF made = {} THEN "ledger_fails" ELSE calls[CHOOSE k \in made : TRUE].outcome

\* The state of process_batch after the files among the first n that the
\* loop has passed were processed one by one in walk order, without batches.
RECURSIVE Unbatched(_)
Unbatched(n) ==
  LET before == Unbatched(n - 1)
  IN  IF n = 0 THEN FreshBatchState
      ELSE IF n \in Passed THEN process_file(before, n, FailedWrite(n))
      ELSE before

\* C22: batching does not affect the result.  For every batch size the
\* ledger rows, the ordinals and the calls of anonymize_dicom_file are those
\* of processing the files the loop has passed once each in walk order, and
\* at the end of the run the loop has passed every file that is not a
\* marker, the files of a final partial batch included.
C22_BatchingIndependent ==
  /\ BatchState = Unbatched(Len(files))
  /\ \A k, m \in DOMAIN calls : k < m => calls[k].input_path < calls[m].input_path
  /\ pc = "done" =>
       Passed = {i \in DOMAIN files : files[i].name \notin ignored_files}

\* C22 witness: a run with a batch size larger than the number of its files
\* is over, and the file of its final partial batch was anonymized.
C22_Witness ==
  /\ pc = "done"
  /\ batch_size > Len(files)
  /\ calls # <<>>
  /\ ledger # <<>>

-----------------------------------------------------------------------------
(* src/src/processor.py: process_directory without batches, with           *)
(* src/src/extractor.py, src/src/encryption.py and src/src/anonymizer.py.  *)
(* Of the exceptions of the loop only InvalidDicomError is caught: a       *)
(* secret phrase file that cannot be read ends the run.                    *)

MaxLegacyFiles == 3

\* src/src/extractor.py
legacy_extract_dicom_info(file) ==
  IF ~file.readable THEN None
  ELSE
    LET modality == IF hasattr(file.ds, "Modality") THEN file.ds.Modality ELSE "NOMODALITY"
    IN  [ PatientID |-> IF hasattr(file.ds, "PatientID") THEN file.ds.PatientID
                        ELSE "NOPATIENTID",
          Modality |-> modality,
          ImageLaterality |->
            IF modality # "MR" /\ hasattr(file.ds, "ImageLaterality")
            THEN file.ds.ImageLaterality
            ELSE "NOIMAGELATERALITY",
          ViewPosition |-> getattr(file.ds, "ViewPosition", "NOVIEWPOSITION"),
          StudyDate |-> getattr(file.ds, "StudyDate", "NOSTUDYDATE"),
          ScanningSequence |-> getattr(file.ds, "ScanningSequence", "NOSCANNINGSEQUENCE"),
          SeriesDescription |-> getattr(file.ds, "SeriesDescription", "NOSERIESDESCRIPTION"),
          InstanceNumber |-> getattr(file.ds, "InstanceNumber", "NOINSTANCENUMBER") ]

\* src/src/encryption.py
legacy_encrypt_patient_id(patient_id, secret_file) ==
  LET epi_secret_phrase == read_secret_phrase(secret_file)
      combined_str == epi_secret_phrase.value \o patient_id
      encrypted_id == sha256_hexdigest(combined_str)
  IN  IF epi_secret_phrase.raised THEN epi_secret_phrase
      ELSE Return(Take(encrypted_id, Len(patient_id)))

\* src/src/anonymizer.py: the name of the metadata files and of the artifact
legacy_filename_prefix(anon_params) ==
  IF anon_params.modality = "MG"
  THEN anon_params.anon_patient_id \o "_" \o anon_params.modality \o "_"
         \o anon_params.view \o "_" \o anon_params.laterality
  ELSE IF anon_params.modality = "US"
  THEN anon_params.anon_patient_id \o "_" \o anon_params.modality
  ELSE IF anon_params.modality = "MR"
  THEN anon_params.anon_patient_id \o "_" \o anon_params.modality \o "_"
         \o anon_params.series
  ELSE anon_params.anon_patient_id \o "_" \o anon_params.modality \o "_"
         \o anon_params.view \o "_" \o anon_params.date

\* src/src/anonymizer.py: the attributes anonymize_dicom_file sets to "" when
\* the data set has them; the private elements it names are never found.
legacy_fields_to_anonymize ==
  << "PatientBirthDate", "PatientSex", "PatientAge", "StudyDescription",
     "SeriesDescription", "InstitutionName", "InstitutionAddress",
     "InstitutionalDepartmentName", "ReferringPhysicianName", "PhysiciansOfRecord",
     "WindowCenterWidthExplanation", "RequestingPhysician",
     "RequestedProcedureDescription", "PerformedProcedureStepDescription",
     "ScheduledProcedureStepDescription", "(0x07a3, 0x1019)", "(0x07a3, 0x101c)",
     "(0x0040, 0x0007)", "PerformingPhysicianName", "CodeMeaning" >>

legacy_anonymized_dataset(ds, anon_params) ==
  LET named == anonymize_field(ds, "PatientName", "Anonymous")
      renamed == anonymize_field(named, "PatientID", anon_params.anon_patient_id)
  IN  anonymize_fields(renamed, legacy_fields_to_anonymize)

\* src/src/anonymizer.py: anonymize_dicom_file writes the metadata before,
\* the data set under output_path, the metadata after, and renames the file.
legacy_anonymize_dicom_file(dir, meta, file, output_path, anon_params) ==
  LET ds == legacy_anonymized_dataset(file.ds, anon_params)
      pre == path_join(pre_folder, legacy_filename_prefix(anon_params)
                                     \o filename_suffix(anon_params, ".dcm.txt"))
      target == path_join(dirname(output_path),
                          legacy_filename_prefix(anon_params)
                            \o filename_suffix(anon_params, ".dcm"))
  IN  [ out_dir |-> WriteFile(RemoveFile(WriteFile(dir, output_path, ds), output_path),
                              target, ds),
        meta_files |-> meta \cup {pre, save_meta_post(output_path)} ]

\* src/src/processor.py:60-178, one file of the walk.  st.anon_patient_id is
\* the local variable anon_patient_id, assigned only when the patient is new.
legacy_process_file(st, input_path) ==
  LET file == files[input_path]
      dicom_info == legacy_extract_dicom_info(file)
      patient_id == dicom_info.PatientID
      date == replace(dicom_info.StudyDate, "-", "")
      encrypted == legacy_encrypt_patient_id(patient_id, secret)
      new == patient_id \notin DOMAIN st.anonymized_ids
      appended ==
        IF new
        THEN [st EXCEPT !.anon_patient_id = encrypted.value,
                        !.anonymized_ids = (patient_id :> <<encrypted.value, date>>) @@ @,
                        !.ledger = @ \o appended_rows(st.first_row_written,
                                                      <<date, patient_id, encrypted.value>>),
                        !.first_row_written = TRUE]
        ELSE st
      anon_patient_id == appended.anon_patient_id
      modality == dicom_info.Modality
      laterality == dicom_info.ImageLaterality
      instance_counter_1 == st.instance_counter + 1
      instance == dicom_info.InstanceNumber \o "_" \o format_08(instance_counter_1)
      breast_laterality == IF laterality # "" THEN upper(laterality) ELSE ""
      filename_prefix ==
        construct_filename_prefix(anon_patient_id, modality, dicom_info.ViewPosition,
                                  breast_laterality, dicom_info.SeriesDescription)
      output_path == output_path_of(filename_prefix, date, instance)
      anon_params ==
        [ anon_patient_id |-> anon_patient_id, modality |-> modality,
          view |-> dicom_info.ViewPosition, laterality |-> laterality, date |-> date,
          sequence |-> dicom_info.ScanningSequence, series |-> dicom_info.SeriesDescription,
          instance |-> instance ]
      after == legacy_anonymize_dicom_file(appended.out_dir, appended.meta_files, file,
                                           output_path, anon_params)
  IN  IF file.name \in ignored_files \/ ~is_dicom_file(file) \/ dicom_info = None
      THEN [st EXCEPT !.crashed = FALSE]
      ELSE IF new /\ encrypted.raised THEN [st EXCEPT !.crashed = TRUE]
      ELSE [appended EXCEPT !.crashed = FALSE,
                            !.instance_counter = instance_counter_1,
                            !.out_dir = after.out_dir,
                            !.meta_files = after.meta_files,
                            !.calls = Append(@, [ input_path |-> input_path,
                                                  output_path |-> output_path,
                                                  anon_params |-> anon_params,
                                                  outcome |-> "ok" ])]

LegacyState ==
  [ anonymized_ids |-> anonymized_ids, instance_counter |-> instance_counter,
    first_row_written |-> first_row_written, ledger |-> ledger, out_dir |-> out_dir,
    meta_files |-> meta_files, calls |-> calls,
    anon_patient_id |-> legacy_anon_patient_id, crashed |-> FALSE ]

\* src/src/processor.py:52-178, the next file of os.walk
LegacyFile ==
  /\ pc = "legacy"
  /\ walk_pos <= Len(files)
  /\ \E st \in {legacy_process_file(LegacyState, walk_pos)} :
       /\ anonymized_ids' = st.anonymized_ids
       /\ instance_counter' = st.instance_counter
       /\ first_row_written' = st.first_row_written
       /\ ledger' = st.ledger
       /\ out_dir' = st.out_dir
       /\ meta_files' = st.meta_files
       /\ calls' = st.calls
       /\ legacy_anon_patient_id' = st.anon_patient_id
       /\ pc' = IF st.crashed THEN "crashed" ELSE "legacy"
  /\ walk_pos' = walk_pos + 1
  /\ UNCHANGED <<files, secret, batch_size, file_batch, batch_pos, encrypt_calls,
                 sightings, fn_args, fn_result, stages, moves, pool>>

\* The walk is over.
LegacyEnd ==
  /\ pc = "legacy"
  /\ walk_pos > Len(files)
  /\ pc' = "done"
  /\ UNCHANGED <<files, secret, batch_size, walk_pos, file_batch, batch_pos,
                 anonymized_ids, instance_counter, first_row_written, ledger, out_dir,
                 calls, encrypt_calls, sightings, meta_files, fn_args, fn_result,
                 cur_vars>>

LegacyFiles == {MG_R001, US_R001, MR_R002, NoModality_R002, Marker, NotDicom}

InitLegacy ==
  /\ files \in UNION {[1..n -> LegacyFiles] : n \in 0..MaxLegacyFiles}
  /\ secret \in {SecretFile("missing", ""), SecretFile("readable", "key\n")}
  /\ batch_size = 1
  /\ pc = "legacy"
  /\ walk_pos = 1
  /\ file_batch = <<>>
  /\ batch_pos = 1
  /\ anonymized_ids = <<>>
  /\ instance_counter = 0
  /\ first_row_written = FALSE
  /\ ledger = <<>>
  /\ out_dir = {}
  /\ meta_files = {}
  /\ calls = <<>>
  /\ encrypt_calls = <<>>
  /\ sightings = <<>>
  /\ fn_args = <<>>
  /\ fn_result = NotCalled
  /\ CurationIdle

NextLegacy == LegacyFile \/ LegacyEnd

SpecLegacy == InitLegacy /\ [][NextLegacy]_vars

(* Properties of src/src/processor.py (SpecLegacy) *)

\* C23: in the process_directory without batches a file whose real patient
\* id was seen earlier in the run is anonymized with the anonymized id given
\* to that real id at its first sighting, whatever patients came in between.
C23_LegacyReusesFirstId ==
  \A k \in DOMAIN calls :
    LET patient_id == legacy_extract_dicom_info(files[calls[k].input_path]).PatientID
    IN  calls[k].anon_params.anon_patient_id = anonymized_ids[patient_id][1]

-----------------------------------------------------------------------------
(* Properties of the write of an artifact (Spec) *)

\* The final name of the artifact of a call of anonymize_dicom_file.
FinalPath(call) == new_file_path(call.output_path, call.anon_params)

\* C25: an artifact never is in the output folder under its final name
\* before its content is written completely: save_dicom writes the data set
\* under a name that is not the final one, and only the rename after the
\* completed write makes the final name exist.
C25_FinalNameOnlyByRename ==
  \A k \in DOMAIN calls :
    /\ calls[k].outcome # "pre_fails" => calls[k].output_path # FinalPath(calls[k])
    /\ calls[k].outcome = "post_fails" =>
         \A f \in out_dir : f.path # FinalPath(calls[k])

\* C26: for a US source file that carries no laterality attribute the name
\* extract_dicom_info and process_directory compute has no laterality
\* segment: its prefix is {anonId}_US_{view}.
C26_UsNameWithoutLaterality ==
  \A k \in DOMAIN calls :
    LET file == files[calls[k].input_path]
        params == calls[k].anon_params
    IN  (params.modality = "US" /\ ~hasattr(file.ds, "ImageLaterality")) =>
          calls[k].output_path =
            output_path_of(params.anon_patient_id \o "_US_" \o params.view,
                           params.date, params.instance)

-----------------------------------------------------------------------------
(* src/src/validation/laterality.py: process_dicom_files hands the files   *)
(* of the verifying directory to process_dicom_file, batch by batch with   *)
(* the blocking pool.map, one task for a batch.                            *)

\* get_dicom_tag(dicom_file, tag)
get_dicom_tag(file, tag) ==
  IF file.readable /\ hasattr(file.ds, tag) THEN file.ds[tag] ELSE ""

\* str.strip(c) for a character c
RECURSIVE strip_char(_, _)
strip_char(s, c) ==
  LET head == Drop(s, 1)
      init == Take(s, Len(s) - 1)
  IN  IF s # "" /\ CharAt(s, 1) = c THEN strip_char(head, c)
      ELSE IF s # "" /\ CharAt(s, Len(s)) = c THEN strip_char(init, c)
      ELSE s

\* list.insert(2, x)
insert_2(parts, x) ==
  IF Len(parts) <= 2 THEN Append(parts, x)
  ELSE SubSeq(parts, 1, 2) \o <<x>> \o SubSeq(parts, 3, Len(parts))

\* validation/laterality.py: rename_file
laterality_rename_file(filename, laterality) ==
  LET parts == split(filename, "_")
  IN  IF \A k \in DOMAIN parts : parts[k] # laterality
      THEN join(insert_2(parts, strip_char(laterality, "_")), "_")
      ELSE filename

\* validation/laterality.py: move_file
laterality_move_file(st, file, folder, laterality) ==
  move_file(st, "verifying", file, folder,
            IF laterality # "" THEN laterality_rename_file(file.name, laterality)
            ELSE file.name)

\* validation/laterality.py: process_dicom_file
process_dicom_file(st, file) ==
  LET modality == get_dicom_tag(file, "Modality")
      laterality == get_dicom_tag(file, "ImageLaterality")
  IN  IF ~file.readable THEN st
      ELSE IF modality \notin {"US", "MG"} THEN st
      ELSE IF laterality \in {"L", "R"}
      THEN laterality_move_file(st, file, "incongruities", laterality)
      ELSE laterality_move_file(st, file, "unsolvable", "_NA_")

Verify ==
  \E file \in stages["verifying"] :
    /\ \A k \in HandledBy("laterality") : moves[k].id # file.id
    /\ \E st \in {process_dicom_file(stages, file)} :
         /\ stages' = st
         /\ moves' = Append(moves, Handled("laterality", file, "verifying", st, 0,
                                           "ImageLaterality"))
    /\ UNCHANGED <<run_vars, legacy_anon_patient_id, fn_args, fn_result, pool>>

(* The files of the verifying directory *)

Verifying(modality, laterality, name) ==
  CandidateFile(name, TRUE,
                IF laterality = "absent" THEN [ Modality |-> modality, PatientID |-> "cdef" ]
                ELSE [ Modality |-> modality, PatientID |-> "cdef",
                       ImageLaterality |-> laterality ])

VerifyingFiles ==
  << Verifying("MG", "L", "cdef_MG_CC_L_20230101_1_00000001.dcm"),
     Verifying("MG", "R", "cdef_MG_MLO_R_20230101_2_00000002.dcm"),
     Verifying("MG", "absent", "cdef_MG_CC_NOIMAGELATERALITY_20230101_3_00000003.dcm"),
     Verifying("MG", "B", "cdef_MG_CC_B_20230101_4_00000004.dcm"),
     Verifying("US", "L", "cdef_US_20230102_1_00000005.dcm"),
     Verifying("US", "R", "cdef_US_20230102_2_00000006.dcm"),
     Verifying("US", "absent", "cdef_US_20230102_3_00000007.dcm"),
     Verifying("MR", "absent", "cdef_MR_T1_20230103_1_00000008.dcm"),
     Cand_NotDicom >>

InitVerifying ==
  /\ RunIdle
  /\ fn_args = <<>>
  /\ fn_result = NotCalled
  /\ \E n \in 1..MaxCandidates :
       \E chosen \in [1..n -> DOMAIN VerifyingFiles] :
         /\ \A i, j \in 1..n : i < j => chosen[i] < chosen[j]
         /\ stages = [s \in Stages |->
                        IF s = "verifying"
                        THEN {Candidate(i, VerifyingFiles[chosen[i]].name,
                                        VerifyingFiles[chosen[i]].readable,
                                        VerifyingFiles[chosen[i]].ds) : i \in 1..n}
                        ELSE {}]
  /\ moves = <<>>
  /\ pool = PoolIdle
  /\ legacy_anon_patient_id = Unbound

NextVerifying == Verify

SpecVerifying == InitVerifying /\ [][NextVerifying]_vars

(* Properties of the laterality verification (SpecVerifying) *)

\* C27: process_dicom_file moves a US or MG file to the incongruities
\* directory only when its laterality is unrecoverable, neither L nor R: a
\* file whose laterality is L or R is not moved to incongruities.
C27_IncongruitiesOnlyUnrecoverable ==
  \A k \in HandledBy("laterality") :
    moves[k].to = "incongruities" =>
      get_dicom_tag(moves[k].file, "ImageLaterality") \notin {"L", "R"}

-----------------------------------------------------------------------------
(* src/src/validation/compare.py: process_dicom_files pairs the files of    *)
(* the comparing directory with the files of non_anonymized_dir by          *)
(* SOPInstanceUID and moves the paired ones, renamed, to compared.          *)

\* validation/compare.py: load_mapping, anonymized id -> real id; a later row
\* replaces an earlier one, a row of fewer than two fields is left out.
validation_load_mapping(rows) ==
  LET valid == {i \in DOMAIN rows : Len(rows[i]) >= 2}
  IN  [k \in {rows[i][2] : i \in valid} |->
         rows[CHOOSE i \in valid :
                /\ rows[i][2] = k
                /\ \A j \in valid : rows[j][2] = k => j <= i][1]]

\* validation/compare.py: get_metadata(dicom_file, [tag])[tag]
validation_get_metadata(file, tag) ==
  IF file.readable /\ hasattr(file.ds, tag) THEN file.ds[tag] ELSE "Unknown"

validation_unwanted_files == {".ds_store", "lockfile", "version", "dicomdir"}

\* validation/compare.py: find_dicom_files, the positions of the files of a
\* directory listing that pydicom can read.
validation_find_dicom_files(dir) ==
  {i \in DOMAIN dir : lower(dir[i].name) \notin validation_unwanted_files /\ dir[i].readable}

\* The files of non_anonymized_dir: the acquisitions the candidates were
\* made from.
Acquisition(name, sop, patient_id, modality, rest) ==
  SourceFile(name, TRUE,
             [ SOPInstanceUID |-> sop, PatientID |-> patient_id, Modality |-> modality ]
               @@ rest)

non_anonymized_dir ==
  << Acquisition("IM1001", "1.3.1", "R001", "MG",
                 [ StudyDate |-> "20230101", InstanceNumber |-> "1",
                   ViewPosition |-> "CC", ImageLaterality |-> "L" ]),
     Acquisition("IM1002", "1.3.2", "R001", "US",
                 [ StudyDate |-> "20230102", InstanceNumber |-> "1",
                   ViewPosition |-> "AX", ImageLaterality |-> "R" ]),
     Acquisition("IM1003", "1.3.3", "R002", "US",
                 [ StudyDate |-> "20230102", InstanceNumber |-> "2",
                   ViewPosition |-> "AX" ]),
     Acquisition("IM1004", "1.3.4", "R002", "US",
                 [ StudyDate |-> "20230102", InstanceNumber |-> "3",
                   ViewPosition |-> "AX", ImageLaterality |-> "" ]),
     Acquisition("IM1005", "1.3.5", "R001", "MR",
                 [ StudyDate |-> "20230103", InstanceNumber |-> "1",
                   SeriesDescription |-> "T1", ViewPosition |-> "AX",
                   ImageLaterality |-> "L" ]),
     Acquisition("IM1006", "1.3.6", "R002", "MR",
                 [ StudyDate |-> "20230103", InstanceNumber |-> "2",
                   SeriesDescription |-> "T2" ]),
     Acquisition("IM1007", "1.3.7", "R001", "DX",
                 [ StudyDate |-> "20230104", InstanceNumber |-> "1",
                   ViewPosition |-> "PA", ImageLaterality |-> "L" ]),
     Acquisition("IM1008", "1.3.8", "R004", "MG",
                 [ StudyDate |-> "20230101", InstanceNumber |-> "2",
                   ViewPosition |-> "MLO", ImageLaterality |-> "R" ]),
     SourceFile("DICOMDIR", FALSE, [ x \in {} |-> "" ]) >>

\* validation/compare.py: index_non_anonymized_files, SOPInstanceUID -> the
\* position of the last file read with it.
index_non_anonymized_files(dir) ==
  LET read == validation_find_dicom_files(dir)
      keyed == {i \in read : validation_get_metadata(dir[i], "SOPInstanceUID") # "Unknown"}
  IN  [uid \in {validation_get_metadata(dir[i], "SOPInstanceUID") : i \in keyed} |->
         CHOOSE i \in keyed :
           /\ validation_get_metadata(dir[i], "SOPInstanceUID") = uid
           /\ \A j \in keyed :
                validation_get_metadata(dir[j], "SOPInstanceUID") = uid => j <= i]

\* validation/compare.py: rename_file
validation_rename_file(file_name, view_position, image_laterality) ==
  LET parts == split(file_name, "_")
  IN  IF Len(parts) > 3
      THEN join([parts EXCEPT ![3] = view_position, ![4] = image_laterality], "_")
      ELSE join(parts, "_")

\* The position of the acquisition process_dicom_files pairs the file with,
\* 0 when it pairs it with none.
validation_match(file, mapping) ==
  LET anonymized_patient_id == validation_get_metadata(file, "PatientID")
      anonymized_sop_uid == validation_get_metadata(file, "SOPInstanceUID")
      sop_uid_index == index_non_anonymized_files(non_anonymized_dir)
  IN  IF anonymized_patient_id = "" \/ anonymized_patient_id \notin DOMAIN mapping THEN 0
      ELSE IF anonymized_sop_uid \notin DOMAIN sop_uid_index THEN 0
      ELSE sop_uid_index[anonymized_sop_uid]

\* validation/compare.py: one iteration of the loop of process_dicom_files
validation_process_dicom_file(st, file, mapping) ==
  LET pos == validation_match(file, mapping)
      view_position == validation_get_metadata(non_anonymized_dir[pos], "ViewPosition")
      image_laterality == validation_get_metadata(non_anonymized_dir[pos], "ImageLaterality")
  IN  IF ~file.readable \/ lower(file.name) \in validation_unwanted_files THEN st
      ELSE IF pos = 0 THEN st
      ELSE IF view_position = "Unknown" \/ image_laterality = "Unknown" THEN st
      ELSE move_file(st, "comparing", file, "compared",
                     validation_rename_file(file.name, view_position, image_laterality))

ValidationCompare ==
  \E file \in stages["comparing"] :
    /\ \A k \in HandledBy("validation.compare") : moves[k].id # file.id
    /\ \E mapping \in {validation_load_mapping(mapping_rows)} :
         \E st \in {validation_process_dicom_file(stages, file, mapping)} :
           /\ stages' = st
           /\ moves' = Append(moves,
                              Handled("validation.compare", file, "comparing", st,
                                      IF st = stages THEN 0 ELSE validation_match(file, mapping),
                                      "SOPInstanceUID"))
    /\ UNCHANGED <<run_vars, legacy_anon_patient_id, fn_args, fn_result, pool>>

\* The name process_batch gives the file it makes of an acquisition
\* (processing/processor.py:96-110), counter being the instance counter.
ingested_name(acquisition, anon_patient_id, counter) ==
  LET dicom_info == extract_dicom_info(acquisition)
      date == replace(dicom_info.StudyDate, "-", "")
      instance == instance_of(dicom_info.InstanceNumber, counter)
      filename_prefix ==
        construct_filename_prefix(anon_patient_id, dicom_info.Modality,
                                  dicom_info.ViewPosition,
                                  breast_laterality_of(dicom_info.ImageLaterality),
                                  dicom_info.SeriesDescription)
  IN  basename(output_path_of(filename_prefix, date, instance))

\* The file the ingestion makes of the acquisition at a position of
\* non_anonymized_dir, its PatientID replaced by the anonymized id.
Ingested(pos, anon_patient_id) ==
  CandidateFile(ingested_name(non_anonymized_dir[pos], anon_patient_id, pos), TRUE,
                [ SOPInstanceUID |-> non_anonymized_dir[pos].ds["SOPInstanceUID"],
                  PatientID |-> anon_patient_id ])

ComparingFiles ==
  << Ingested(1, "cdef"), Ingested(2, "cdef"), Ingested(3, "9abc"), Ingested(4, "9abc"),
     Ingested(5, "cdef"), Ingested(6, "9abc"), Ingested(7, "cdef"), Ingested(8, "bbbb"),
     Cand_NotDicom >>

InitComparing ==
  /\ RunIdle
  /\ fn_args = <<>>
  /\ fn_result = NotCalled
  /\ \E n \in 1..MaxCandidates :
       \E chosen \in [1..n -> DOMAIN ComparingFiles] :
         /\ \A i, j \in 1..n : i < j => chosen[i] < chosen[j]
         /\ stages = [s \in Stages |->
                        IF s = "comparing"
                        THEN {Candidate(i, ComparingFiles[chosen[i]].name,
                                        ComparingFiles[chosen[i]].readable,
                                        ComparingFiles[chosen[i]].ds) : i \in 1..n}
                        ELSE {}]
  /\ moves = <<>>
  /\ pool = PoolIdle
  /\ legacy_anon_patient_id = Unbound

NextComparing == ValidationCompare

SpecComparing == InitComparing /\ [][NextComparing]_vars

(* Properties of the comparison (SpecComparing) *)

\* The text a name ends with after the prefix of the file: study date,
\* instance number, ordinal and extension.
NameTail(acquisition, counter) ==
  LET dicom_info == extract_dicom_info(acquisition)
  IN  "_" \o replace(dicom_info.StudyDate, "-", "") \o "_"
          \o instance_of(dicom_info.InstanceNumber, counter) \o ".dcm"

ends_with(s, tail) == Len(s) >= Len(tail) /\ Drop(s, Len(s) - Len(tail)) = tail

\* C28: when process_dicom_files pairs a candidate with an acquisition, the
\* new name of the candidate carries the view position and the laterality of
\* the acquisition, and the anonymized id, the modality, the study date, the
\* instance number, the ordinal and the extension are those of the old name,
\* whatever the shape of the name (MG, US with or without laterality, MR,
\* other).
C28_RenameKeepsOtherComponents ==
  \A k \in HandledBy("validation.compare") :
    moves[k].to = "compared" =>
      LET acquisition == non_anonymized_dir[moves[k].raw]
          old == split(moves[k].file.name, "_")
          new == split(moves[k].after.name, "_")
      IN  /\ \E i \in DOMAIN new :
               /\ i < Len(new)
               /\ new[i] = acquisition.ds["ViewPosition"]
               /\ new[i + 1] = acquisition.ds["ImageLaterality"]
          /\ new[1] = old[1]
          /\ new[2] = old[2]
          /\ ends_with(moves[k].after.name, NameTail(acquisition, moves[k].raw))

-----------------------------------------------------------------------------
(* The mapping file of a run read back by the curation scripts (Spec) *)

\* The rows csv.reader yields after next(reader) has taken the header; on a
\* file without a line next(reader) raises StopIteration and load_mapping
\* returns the empty table.
rows_under_header(lines) == IF lines = <<>> THEN <<>> ELSE Tail(lines)

\* real id -> anonymized id as process_batch holds it in anonymized_ids
InMemoryMapping == [p \in DOMAIN anonymized_ids |-> anonymized_ids[p][1]]

\* C29: the table real id -> anonymized id that identifier.load_mapping and
\* reidentified.load_mapping read from the mapping file process_directory
\* has written is the table the run holds in memory.
C29_LedgerRoundTrip ==
  pc = "done" =>
    /\ identifier_load_mapping(rows_under_header(ledger)) = InMemoryMapping
    /\ reidentified_load_mapping(rows_under_header(ledger)) = InMemoryMapping

-----------------------------------------------------------------------------
(* The four scripts of src/src/validation at work on the stage directories: *)
(* identifier on checking, reidentified on identified, compare on           *)
(* comparing, laterality on verifying.                                      *)

\* The file a run of the ingestion under another phrase made of the
\* acquisition of Cand_R001: the counter of a run starts at 1 again, the
\* anonymized id is the one of that phrase.
Cand_Rerun ==
  CandidateFile("beef_MG_CC_L_20230101_1_00000001.dcm", TRUE,
                [ SOPInstanceUID |-> "1.2.1", PatientID |-> "beef", InstanceNumber |-> "1" ])

\* The directory a file waits in and the file.
Waiting(stage, file) == [stage |-> stage, file |-> file]

WaitingFiles ==
  << Waiting("checking", Cand_R001), Waiting("checking", Cand_Rerun),
     Waiting("checking", Cand_Stale), Waiting("checking", Cand_NoMatch),
     Waiting("checking", Cand_NotDicom),
     Waiting("comparing", ComparingFiles[1]), Waiting("comparing", ComparingFiles[5]),
     Waiting("comparing", ComparingFiles[3]),
     Waiting("verifying", VerifyingFiles[1]), Waiting("verifying", VerifyingFiles[7]),
     Waiting("verifying", VerifyingFiles[8]) >>

InitValidation ==
  /\ RunIdle
  /\ fn_args = <<>>
  /\ fn_result = NotCalled
  /\ \E n \in 1..MaxCandidates :
       \E chosen \in [1..n -> DOMAIN WaitingFiles] :
         /\ \A i, j \in 1..n : i < j => chosen[i] < chosen[j]
         /\ stages = [s \in Stages |->
                        {Candidate(i, WaitingFiles[chosen[i]].file.name,
                                   WaitingFiles[chosen[i]].file.readable,
                                   WaitingFiles[chosen[i]].file.ds) :
                           i \in {j \in 1..n : WaitingFiles[chosen[j]].stage = s}}]
  /\ moves = <<>>
  /\ pool = PoolIdle
  /\ legacy_anon_patient_id = Unbound

NextValidation == Identify \/ Reidentify \/ ValidationCompare \/ Verify

SpecValidation == InitValidation /\ [][NextValidation]_vars

(* Properties of the validation scripts (SpecValidation) *)

\* The number of files the stage directories hold.
FileCount(st) == Cardinality(UNION {st[s] : s \in Stages})

\* C30: no step of identifier, reidentified, compare or laterality
\* overwrites or destroys a candidate: two files never end up under one
\* destination path, so every step leaves the number of files summed over
\* the stage directories as it was.
C30_FileConservation ==
  [][/\ FileCount(stages') = FileCount(stages)
     /\ \A s \in Stages : \A f, g \in stages'[s] : f.name = g.name => f.id = g.id]_vars

====
